---- MODULE Spec2Model ----
(***************************************************************************)
(* ISO 14443 Type B engine of armsrc/iso14443b.c: the framing codec, the   *)
(* tag-side software UART, the reader-side BPSK demodulator and the reader *)
(* protocol functions (select_card, select_srx_card, apdu), the tag        *)
(* simulation, the sniffer and the wait loops.                             *)
(*                                                                         *)
(* Each specification below drives one part of the engine:                 *)
(*   SpecCodeReader  CodeIso14443bAsReader -> Handle14443bSampleFromReader *)
(*   SpecCodeTag     CodeIso14443bAsTag    -> Handle14443bSamplesFromTag   *)
(*   SpecDemod       Handle14443bSamplesFromTag on arbitrary IQ samples    *)
(*   SpecChar        one 10-bit character in the demodulator               *)
(*   SpecAnswer      the receive loop of Get14443bAnswerFromTag            *)
(*   SpecReader      iso14443b_select_card / iso14443b_apdu sessions       *)
(*   SpecSrx         iso14443b_select_srx_card                             *)
(*   SpecApdu        iso14443b_apdu with long answers                      *)
(*   SpecSof         the start of frame in both decoders                   *)
(*   SpecSim         SimulateIso14443bTag                                  *)
(*   SpecSniff       SniffIso14443b                                        *)
(*   SpecWait        the wait loops and their cancellation; SpecWaitLive   *)
(*                   adds the fairness of the program's passes             *)
(*   SpecUartMax     the UART under every frame-size limit                 *)
(*   SpecEncode      both encoders, for the frame delimiters               *)
(*   SpecTimeout     SET_TIMEOUT requests and card selections              *)
(*   SpecTransmit    TransmitFor14443b_AsReader and the SSP clock;         *)
(*                   SpecTransmitLive adds that both go on                 *)
(*   SpecDma         the DMA ring of the receive and sniff loops           *)
(*   SpecReceive     the receive loop on streams without end;              *)
(*                   SpecReceiveLive adds that the loop goes on            *)
(*   SpecInterop     iso14443b_select_card against SimulateIso14443bTag    *)
(***************************************************************************)
EXTENDS Integers, Sequences, FiniteSets, TLC

VARIABLES
    pc,             \* position of the driver of the specification
    M,              \* octet sequence handed to the encoder
    ToSend,         \* the stuffbit buffer: [buf, max, bit]
    pos,            \* number of samples already fed to the decoder
    Uart,           \* the tag-side software UART
    Demod,          \* the reader-side demodulator
    ret,            \* return value of the last decoder call
    phase,          \* <<I, Q>> of the tag's reference phase (logic 1)
    stored,         \* bytes stored by the demodulator since the last accepted SOF
    tail,           \* IQ samples of the character in progress still to come
    pcb_blocknum,   \* ISO 14443-4 block number
    iso14b_timeout, \* frame waiting time
    card,           \* the card descriptor filled by select_card
    lastTx,         \* frames transmitted by the last protocol call, in order
    lastRet,        \* return value of the last protocol call
    lastCall,       \* which protocol call ran last, and on what input
    hist,           \* what the claims need of the calls before the last one
    ncalls,         \* number of protocol calls made so far
    tag,            \* the tag in the field: its answers, and what is received of them
    sim,            \* the locals of SimulateIso14443bTag
    reader,         \* the reader in the field: what is received of its commands
    sniff,          \* the locals of SniffIso14443b and its trace
    hw              \* the hardware a wait loop polls, and what the loop did

vars == <<pc, M, ToSend, pos, Uart, Demod, ret, phase, stored, tail,
          pcb_blocknum, iso14b_timeout, card, lastTx, lastRet, lastCall, hist,
          ncalls, tag, sim, reader, sniff, hw>>

(***************************************************************************)
(* Bounds of the model.                                                    *)
(***************************************************************************)
\* longest octet sequence drawn exhaustively from ByteAlphabet
MaxLen == 2

\* include/common.h sets MAX_FRAME_SIZE to 256; the file under study uses it
\* for Uart.byteCntMax and the receive buffers.
MAX_FRAME_SIZE == 256

ByteAlphabet == {0, 5, 165, 255}

RECURSIVE SeqsUpTo(_, _)
SeqsUpTo(S, n) ==
    IF n = 0 THEN {<<>>}
    ELSE LET shorter == SeqsUpTo(S, n - 1)
         IN  shorter \cup {Append(s, b) : s \in {t \in shorter : Len(t) = n - 1}, b \in S}

\* a long frame with varying octets
LongMsg(n) == [i \in 1..n |-> (i * 37 + 11) % 256]

(***************************************************************************)
(* Bit arithmetic on C integers.                                           *)
(***************************************************************************)
\* 1 << n for n in 0..16
PowersOf2 == <<1, 2, 4, 8, 16, 32, 64, 128, 256, 512, 1024, 2048, 4096, 8192,
               16384, 32768, 65536>>
Pow2(n) == PowersOf2[n + 1]

BitOf(x, i) == (x \div Pow2(i)) % 2

\* x | (1 << i)
SetBit(x, i) == IF BitOf(x, i) = 1 THEN x ELSE x + Pow2(i)

(***************************************************************************)
(* The stuffbit buffer (tosend_reset, tosend_stuffbit of BigBuf.c): a byte *)
(* sequence, the index max of the last byte written (-1 after a reset) and *)
(* the number bit of symbols already in that byte; a symbol goes to the    *)
(* most significant free bit.  buf is 1-based here: C's buf[k] is          *)
(* buf[k + 1].                                                             *)
(***************************************************************************)
tosend_reset == [buf |-> <<>>, max |-> -1, bit |-> 8]

\* The buffer after tosend_reset() and one tosend_stuffbit(calls[i]) for each
\* i in order: max is bumped and a zero byte started
\* whenever bit has reached 8, and the symbol is or-ed in at bit 7 - bit.
tosend_stuffbits(calls) ==
    LET n      == Len(calls)
        nbytes == (n + 7) \div 8
        sym(j) == IF j <= n /\ calls[j] # 0 THEN 1 ELSE 0
    IN  [buf |-> [k \in 1..nbytes |->
                    128 * sym(8 * k - 7) + 64 * sym(8 * k - 6) + 32 * sym(8 * k - 5)
                    + 16 * sym(8 * k - 4) + 8 * sym(8 * k - 3) + 4 * sym(8 * k - 2)
                    + 2 * sym(8 * k - 1) + sym(8 * k)],
         max |-> nbytes - 1,
         bit |-> IF n = 0 THEN 8 ELSE ((n - 1) % 8) + 1]

\* for (i = 0; i < n; i++) f(b);
Rep(b, n) == [i \in 1..n |-> b]

\* The stuffbits the encoder has written, read back after "ts->max++".
NumStuffbits(ts) == 8 * (ts.max - 1) + ts.bit
StuffbitAt(ts, j) == BitOf(ts.buf[(j \div 8) + 1], 7 - (j % 8))
StuffbitsOf(ts) == [j \in 1..NumStuffbits(ts) |-> StuffbitAt(ts, j - 1)]

(***************************************************************************)
(* CodeIso14443bAsReader                                                   *)
(***************************************************************************)
\* stuffbit p (from 0) of one octet: start bit, 8 data bits least-significant
\* first, stop bit
OctetStuffbit(b, p) ==
    IF p = 0 THEN 0 ELSE IF p = 9 THEN 1 ELSE BitOf(b, p - 1)

\* for (i = 0; i < len; i++) { the ten stuffbits of cmd[i] }
DataStuffbits(cmd) ==
    [j \in 1..(10 * Len(cmd)) |->
        OctetStuffbit(cmd[((j - 1) \div 10) + 1], (j - 1) % 10)]

\* the encoder with an EOF of 9 instead of 10 zeros
ReaderStuffbits_ShortEof(cmd) ==
    Rep(0, 10) \o <<1, 1>> \o DataStuffbits(cmd) \o Rep(0, 9) \o Rep(1, 8)

\* the tosend_stuffbit calls of CodeIso14443bAsReader, in order
ReaderStuffbits(cmd) ==
    Rep(0, 10) \o <<1, 1>> \o DataStuffbits(cmd) \o Rep(0, 10) \o Rep(1, 8)

CodeIso14443bAsReader(cmd) ==
    [tosend_stuffbits(ReaderStuffbits(cmd)) EXCEPT !.max = @ + 1]

(***************************************************************************)
(* The software UART that receives commands from the reader.               *)
(***************************************************************************)
STATE_14B_UNSYNCD == 0
STATE_14B_GOT_FALLING_EDGE_OF_SOF == 1
STATE_14B_AWAITING_START_BIT == 2
STATE_14B_RECEIVING_DATA == 3

\* output[k] of C is output[k + 1]; cells never written are not modelled
Store(out, idx, val) ==
    IF idx < Len(out) THEN [out EXCEPT ![idx + 1] = val]
    ELSE Append(out, val)

Uart14bReset(U) ==
    [U EXCEPT !.state = STATE_14B_UNSYNCD, !.shiftReg = 0, !.bitCnt = 0,
              !.byteCnt = 0, !.byteCntMax = MAX_FRAME_SIZE, !.posCnt = 0]

Uart14bInit ==
    Uart14bReset([state |-> STATE_14B_UNSYNCD, shiftReg |-> 0, bitCnt |-> 0,
                  byteCnt |-> 0, byteCntMax |-> 0, posCnt |-> 0, output |-> <<>>])

UartUnsyncd(U, bit) ==
    IF bit = 0
    THEN [u |-> [U EXCEPT !.state = STATE_14B_GOT_FALLING_EDGE_OF_SOF,
                          !.posCnt = 0, !.bitCnt = 0],
          ret |-> FALSE]
    ELSE [u |-> U, ret |-> FALSE]

\* the state with the give-up test made only when no one was sampled
UartGotFallingEdge_GiveUpWithoutOne(U, bit) ==
    LET pos1    == U.posCnt + 1
        sample  == pos1 = 2
        valid   == sample /\ bit # 0 /\ U.bitCnt > 9
        tooSoon == sample /\ bit # 0 /\ U.bitCnt <= 9
        pos2    == IF valid THEN 0 ELSE pos1
        bitCnt1 == IF sample THEN U.bitCnt + 1 ELSE U.bitCnt
        pos3    == IF pos2 >= 4 THEN 0 ELSE pos2
        state1  == IF valid THEN STATE_14B_AWAITING_START_BIT
                   ELSE IF tooSoon THEN STATE_14B_UNSYNCD
                   ELSE U.state
        state2  == IF bitCnt1 > 12 /\ ~valid THEN STATE_14B_UNSYNCD ELSE state1
    IN  [u |-> [U EXCEPT !.posCnt = pos3, !.bitCnt = bitCnt1, !.state = state2,
                         !.byteCnt = IF valid THEN 0 ELSE @],
         ret |-> FALSE]

UartGotFallingEdge(U, bit) ==
    LET pos1    == U.posCnt + 1
        sample  == pos1 = 2
        valid   == sample /\ bit # 0 /\ U.bitCnt > 9
        tooSoon == sample /\ bit # 0 /\ U.bitCnt <= 9
        pos2    == IF valid THEN 0 ELSE pos1
        bitCnt1 == IF sample THEN U.bitCnt + 1 ELSE U.bitCnt
        pos3    == IF pos2 >= 4 THEN 0 ELSE pos2
        state1  == IF valid THEN STATE_14B_AWAITING_START_BIT
                   ELSE IF tooSoon THEN STATE_14B_UNSYNCD
                   ELSE U.state
        state2  == IF bitCnt1 > 12 THEN STATE_14B_UNSYNCD ELSE state1
    IN  [u |-> [U EXCEPT !.posCnt = pos3, !.bitCnt = bitCnt1, !.state = state2,
                         !.byteCnt = IF valid THEN 0 ELSE @],
         ret |-> FALSE]

UartAwaitingStartBit(U, bit) ==
    LET pos1 == U.posCnt + 1
    IN  IF bit # 0
        THEN [u |-> [U EXCEPT !.posCnt = pos1,
                              !.state = IF pos1 > 50 \div 2
                                        THEN STATE_14B_UNSYNCD ELSE @],
              ret |-> FALSE]
        ELSE [u |-> [U EXCEPT !.posCnt = 0, !.bitCnt = 0, !.shiftReg = 0,
                              !.state = STATE_14B_RECEIVING_DATA],
              ret |-> FALSE]

\* a shift register with the stop bit in bit 9 and the start bit in bit 0
\* without the start bit: the byte stored is (uint8_t)(shiftReg >> 1)
DataByte_StartBitKept(shiftReg) == shiftReg % 256

DataByte(shiftReg) == (shiftReg \div 2) % 256

\* the state giving up only once byteCnt has passed byteCntMax
UartReceivingData_OverflowLate(U, bit) ==
    LET pos1    == U.posCnt + 1
        sample  == pos1 = 2
        shifted == U.shiftReg \div 2
        sr1     == IF sample
                   THEN (IF bit # 0 THEN SetBit(shifted, 9) ELSE shifted)
                   ELSE U.shiftReg
        bitCnt1 == IF sample THEN U.bitCnt + 1 ELSE U.bitCnt
        pos2    == IF pos1 >= 4 THEN 0 ELSE pos1
        U1      == [U EXCEPT !.posCnt = pos2, !.shiftReg = sr1, !.bitCnt = bitCnt1]
    IN  IF bitCnt1 # 10
        THEN [u |-> U1, ret |-> FALSE]
        ELSE IF BitOf(sr1, 9) = 1 /\ BitOf(sr1, 0) = 0
        THEN \* a data byte with correct start and stop bits
             LET byteCnt1 == U.byteCnt + 1
                 out1     == Store(U.output, U.byteCnt, DataByte(sr1))
             IN  IF byteCnt1 > U.byteCntMax
                 THEN [u |-> [U1 EXCEPT !.output = out1, !.byteCnt = byteCnt1,
                                        !.state = STATE_14B_UNSYNCD],
                       ret |-> FALSE]
                 ELSE [u |-> [U1 EXCEPT !.output = out1, !.byteCnt = byteCnt1,
                                        !.posCnt = 0,
                                        !.state = STATE_14B_AWAITING_START_BIT],
                       ret |-> FALSE]
        ELSE IF sr1 = 0
        THEN \* EOF
             [u |-> [U1 EXCEPT !.state = STATE_14B_UNSYNCD],
              ret |-> U.byteCnt # 0]
        ELSE [u |-> [U1 EXCEPT !.state = STATE_14B_UNSYNCD], ret |-> FALSE]

UartReceivingData(U, bit) ==
    LET pos1    == U.posCnt + 1
        sample  == pos1 = 2
        shifted == U.shiftReg \div 2
        sr1     == IF sample
                   THEN (IF bit # 0 THEN SetBit(shifted, 9) ELSE shifted)
                   ELSE U.shiftReg
        bitCnt1 == IF sample THEN U.bitCnt + 1 ELSE U.bitCnt
        pos2    == IF pos1 >= 4 THEN 0 ELSE pos1
        U1      == [U EXCEPT !.posCnt = pos2, !.shiftReg = sr1, !.bitCnt = bitCnt1]
    IN  IF bitCnt1 # 10
        THEN [u |-> U1, ret |-> FALSE]
        ELSE IF BitOf(sr1, 9) = 1 /\ BitOf(sr1, 0) = 0
        THEN \* a data byte with correct start and stop bits
             LET byteCnt1 == U.byteCnt + 1
                 out1     == Store(U.output, U.byteCnt, DataByte(sr1))
             IN  IF byteCnt1 >= U.byteCntMax
                 THEN [u |-> [U1 EXCEPT !.output = out1, !.byteCnt = byteCnt1,
                                        !.state = STATE_14B_UNSYNCD],
                       ret |-> FALSE]
                 ELSE [u |-> [U1 EXCEPT !.output = out1, !.byteCnt = byteCnt1,
                                        !.posCnt = 0,
                                        !.state = STATE_14B_AWAITING_START_BIT],
                       ret |-> FALSE]
        ELSE IF sr1 = 0
        THEN \* EOF
             [u |-> [U1 EXCEPT !.state = STATE_14B_UNSYNCD],
              ret |-> U.byteCnt # 0]
        ELSE [u |-> [U1 EXCEPT !.state = STATE_14B_UNSYNCD], ret |-> FALSE]

Handle14443bSampleFromReader(U, bit) ==
    CASE U.state = STATE_14B_UNSYNCD -> UartUnsyncd(U, bit)
      [] U.state = STATE_14B_GOT_FALLING_EDGE_OF_SOF -> UartGotFallingEdge(U, bit)
      [] U.state = STATE_14B_AWAITING_START_BIT -> UartAwaitingStartBit(U, bit)
      [] U.state = STATE_14B_RECEIVING_DATA -> UartReceivingData(U, bit)
      [] OTHER -> [u |-> [U EXCEPT !.state = STATE_14B_UNSYNCD], ret |-> FALSE]

(***************************************************************************)
(* CodeIso14443bAsTag                                                      *)
(***************************************************************************)
\* SEND4STUFFBIT(x) for each x of bits in order
SEND4STUFFBIT(bits) == [j \in 1..(4 * Len(bits)) |-> bits[((j - 1) \div 4) + 1]]

\* the encoder without the two closing ones
TagBits_NoTail(cmd) ==
    Rep(1, 20) \o Rep(0, 10) \o Rep(1, 2) \o DataStuffbits(cmd) \o Rep(0, 10)

\* the SEND4STUFFBIT calls of CodeIso14443bAsTag, in order
TagBits(cmd) ==
    Rep(1, 20) \o Rep(0, 10) \o Rep(1, 2) \o DataStuffbits(cmd)
        \o Rep(0, 10) \o Rep(1, 2)

CodeIso14443bAsTag(cmd) ==
    [tosend_stuffbits(SEND4STUFFBIT(TagBits(cmd))) EXCEPT !.max = @ + 1]

(***************************************************************************)
(* The software demodulator that receives answers from the tag.            *)
(***************************************************************************)
DEMOD_UNSYNCD == 0
DEMOD_PHASE_REF_TRAINING == 1
DEMOD_AWAITING_FALLING_EDGE_OF_SOF == 2
DEMOD_GOT_FALLING_EDGE_OF_SOF == 3
DEMOD_AWAITING_START_BIT == 4
DEMOD_RECEIVING_DATA == 5

SUBCARRIER_DETECT_THRESHOLD == 8

ABS(x) == IF x < 0 THEN -x ELSE x
MAX(a, b) == IF a > b THEN a ELSE b
MIN(a, b) == IF a < b THEN a ELSE b
AMPLITUDE(ci, cq) == MAX(ABS(ci), ABS(cq)) + (MIN(ABS(ci), ABS(cq)) \div 2)

Demod14bReset(D) ==
    [D EXCEPT !.state = DEMOD_UNSYNCD, !.bitCount = 0, !.posCount = 0,
              !.thisBit = 0, !.shiftReg = 0, !.len = 0, !.sumI = 0, !.sumQ = 0]

Demod14bInit(max_len) ==
    Demod14bReset([state |-> DEMOD_UNSYNCD, bitCount |-> 0, posCount |-> 0,
                   thisBit |-> 0, shiftReg |-> 0, max_len |-> max_len,
                   output |-> <<>>, len |-> 0, sumI |-> 0, sumQ |-> 0])

MAKE_SOFT_DECISION(D, ci, cq) ==
    (IF D.sumI > 0 THEN ci ELSE -ci) + (IF D.sumQ > 0 THEN cq ELSE -cq)

DemodUnsyncd_AtThreshold(D, ci, cq) ==
    IF AMPLITUDE(ci, cq) >= SUBCARRIER_DETECT_THRESHOLD
    THEN [d |-> [D EXCEPT !.state = DEMOD_PHASE_REF_TRAINING,
                          !.sumI = ci, !.sumQ = cq, !.posCount = 1],
          ret |-> FALSE]
    ELSE [d |-> D, ret |-> FALSE]

DemodUnsyncd(D, ci, cq) ==
    IF AMPLITUDE(ci, cq) > SUBCARRIER_DETECT_THRESHOLD
    THEN [d |-> [D EXCEPT !.state = DEMOD_PHASE_REF_TRAINING,
                          !.sumI = ci, !.sumQ = cq, !.posCount = 1],
          ret |-> FALSE]
    ELSE [d |-> D, ret |-> FALSE]

DemodPhaseRefTraining(D, ci, cq) ==
    IF D.posCount < 8
    THEN IF AMPLITUDE(ci, cq) > SUBCARRIER_DETECT_THRESHOLD
         THEN [d |-> [D EXCEPT !.sumI = @ + ci, !.sumQ = @ + cq, !.posCount = @ + 1],
               ret |-> FALSE]
         ELSE [d |-> [D EXCEPT !.state = DEMOD_UNSYNCD], ret |-> FALSE]
    ELSE [d |-> [D EXCEPT !.state = DEMOD_AWAITING_FALLING_EDGE_OF_SOF], ret |-> FALSE]

\* the state with the sample of the falling edge left out of the count
DemodAwaitingFallingEdge_CountFromZero(D, ci, cq) ==
    LET v == MAKE_SOFT_DECISION(D, ci, cq)
    IN  IF v < 0
        THEN [d |-> [D EXCEPT !.state = DEMOD_GOT_FALLING_EDGE_OF_SOF, !.posCount = 0],
              ret |-> FALSE]
        ELSE [d |-> [D EXCEPT !.state = IF D.posCount > 200 \div 4
                                        THEN DEMOD_UNSYNCD ELSE @,
                              !.posCount = @ + 1],
              ret |-> FALSE]

DemodAwaitingFallingEdge(D, ci, cq) ==
    LET v == MAKE_SOFT_DECISION(D, ci, cq)
    IN  IF v < 0
        THEN [d |-> [D EXCEPT !.state = DEMOD_GOT_FALLING_EDGE_OF_SOF, !.posCount = 1],
              ret |-> FALSE]
        ELSE [d |-> [D EXCEPT !.state = IF D.posCount > 200 \div 4
                                        THEN DEMOD_UNSYNCD ELSE @,
                              !.posCount = @ + 1],
              ret |-> FALSE]

DemodGotFallingEdge(D, ci, cq) ==
    LET pos1 == D.posCount + 1
        v    == MAKE_SOFT_DECISION(D, ci, cq)
    IN  IF v > 0
        THEN IF pos1 < 9 * 2
             THEN [d |-> [D EXCEPT !.posCount = pos1, !.state = DEMOD_UNSYNCD],
                   ret |-> FALSE]
             ELSE [d |-> [D EXCEPT !.posCount = 0, !.bitCount = 0, !.len = 0,
                                   !.state = DEMOD_AWAITING_START_BIT],
                   ret |-> FALSE]
        ELSE [d |-> [D EXCEPT !.posCount = pos1,
                              !.state = IF pos1 > 14 * 2 THEN DEMOD_UNSYNCD ELSE @],
              ret |-> FALSE]

DemodAwaitingStartBit(D, ci, cq) ==
    LET pos1 == D.posCount + 1
        v    == MAKE_SOFT_DECISION(D, ci, cq)
    IN  IF v > 0
        THEN IF pos1 > 6 * 2
             THEN IF D.bitCount = 0 /\ D.len = 0
                  THEN \* received SOF only
                       [d |-> [D EXCEPT !.posCount = pos1], ret |-> TRUE]
                  ELSE [d |-> [D EXCEPT !.posCount = pos1, !.state = DEMOD_UNSYNCD],
                        ret |-> FALSE]
             ELSE [d |-> [D EXCEPT !.posCount = pos1], ret |-> FALSE]
        ELSE \* start bit detected
             [d |-> [D EXCEPT !.posCount = 1, !.thisBit = v, !.shiftReg = 0,
                              !.state = DEMOD_RECEIVING_DATA],
              ret |-> FALSE]

\* Demod.output[Demod.len] = (s >> 1), truncated to uint8_t
DemodDataByte_MsbFirst(s) ==
    128 * BitOf(s, 1) + 64 * BitOf(s, 2) + 32 * BitOf(s, 3) + 16 * BitOf(s, 4)
    + 8 * BitOf(s, 5) + 4 * BitOf(s, 6) + 2 * BitOf(s, 7) + BitOf(s, 8)

DemodDataByte(s) == (s \div 2) % 256

\* "s == 0x000": start, stop and all data bits are 0
DemodIsEof_StartStopOnly(s) == BitOf(s, 9) = 0 /\ BitOf(s, 0) = 0

DemodIsEof(s) == s = 0

\* Demod.len++ on a uint16_t
DemodNextLen_Stuck(len) == len

DemodNextLen(len) == (len + 1) % 65536

DemodFramingOk_StartOnly(s) == BitOf(s, 0) = 0

\* (s & 0x200) && !(s & 0x001): stop bit == '1', start bit == '0'
DemodFramingOk(s) == BitOf(s, 9) = 1 /\ BitOf(s, 0) = 0

DemodReceivingData(D, ci, cq) ==
    LET v == MAKE_SOFT_DECISION(D, ci, cq)
    IN  IF D.posCount = 0
        THEN \* first half of bit
             [d |-> [D EXCEPT !.thisBit = v, !.posCount = 1], ret |-> FALSE]
        ELSE \* second half of bit
             LET thisBit1  == D.thisBit + v
                 shifted   == D.shiftReg \div 2
                 s         == IF thisBit1 > 0 THEN SetBit(shifted, 9) ELSE shifted
                 bitCount1 == (D.bitCount + 1) % 65536
                 D1        == [D EXCEPT !.thisBit = thisBit1, !.shiftReg = s,
                                        !.bitCount = bitCount1]
             IN  IF bitCount1 # 10
                 THEN [d |-> [D1 EXCEPT !.posCount = 0], ret |-> FALSE]
                 ELSE IF DemodFramingOk(s)
                 THEN [d |-> [D1 EXCEPT !.output = Store(@, D.len, DemodDataByte(s)),
                                        !.len = DemodNextLen(D.len),
                                        !.bitCount = 0,
                                        !.state = DEMOD_AWAITING_START_BIT,
                                        !.posCount = 0],
                       ret |-> FALSE]
                 ELSE IF DemodIsEof(s)
                 THEN \* EOF: returns before posCount is cleared
                      [d |-> [D1 EXCEPT !.state = DEMOD_UNSYNCD], ret |-> TRUE]
                 ELSE [d |-> [D1 EXCEPT !.state = DEMOD_UNSYNCD, !.posCount = 0],
                       ret |-> FALSE]

Handle14443bSamplesFromTag(D, ci, cq) ==
    CASE D.state = DEMOD_UNSYNCD -> DemodUnsyncd(D, ci, cq)
      [] D.state = DEMOD_PHASE_REF_TRAINING -> DemodPhaseRefTraining(D, ci, cq)
      [] D.state = DEMOD_AWAITING_FALLING_EDGE_OF_SOF -> DemodAwaitingFallingEdge(D, ci, cq)
      [] D.state = DEMOD_GOT_FALLING_EDGE_OF_SOF -> DemodGotFallingEdge(D, ci, cq)
      [] D.state = DEMOD_AWAITING_START_BIT -> DemodAwaitingStartBit(D, ci, cq)
      [] D.state = DEMOD_RECEIVING_DATA -> DemodReceivingData(D, ci, cq)
      [] OTHER -> [d |-> [D EXCEPT !.state = DEMOD_UNSYNCD], ret |-> FALSE]

(***************************************************************************)
(* CRC-14B (compute_crc / check_crc of crc16.c with CRC_14443_B): CRC-16   *)
(* with polynomial 0x1021 reflected, initial value 0xFFFF, final XOR       *)
(* 0xFFFF, appended low byte first.                                        *)
(***************************************************************************)
RECURSIVE Or(_, _)
Or(a, b) ==
    IF a = 0 THEN b
    ELSE IF b = 0 THEN a
    ELSE 2 * Or(a \div 2, b \div 2) + (IF a % 2 = 1 \/ b % 2 = 1 THEN 1 ELSE 0)

RECURSIVE Xor(_, _)
Xor(a, b) ==
    IF a = 0 THEN b
    ELSE IF b = 0 THEN a
    ELSE 2 * Xor(a \div 2, b \div 2) + ((a + b) % 2)

\* one step of the reflected shift register:
\* crc = (crc & 1) ? (crc >> 1) ^ 0x8408 : (crc >> 1)
\* 0x8408 is bits 15, 10 and 3
FlipBit(x, i) == IF BitOf(x, i) = 1 THEN x - Pow2(i) ELSE x + Pow2(i)
CrcShift(crc) ==
    IF crc % 2 = 1 THEN FlipBit(FlipBit(FlipBit(crc \div 2, 15), 10), 3)
    ELSE crc \div 2

CrcByte(crc, b) ==
    CrcShift(CrcShift(CrcShift(CrcShift(
    CrcShift(CrcShift(CrcShift(CrcShift(Xor(crc, b)))))))))

RECURSIVE CrcRange(_, _, _, _)
\* the shift register crc after the bytes data[lo - 1 .. hi) have been shifted
\* in, the range taken in two halves
CrcRange(crc, data, lo, hi) ==
    IF lo > hi THEN crc
    ELSE IF lo = hi THEN CrcByte(crc, data[lo])
    ELSE LET mid  == (lo + hi) \div 2
             left == CrcRange(crc, data, lo, mid)
         IN  \* the test evaluates left before the second half is shifted in
             IF left \in Nat THEN CrcRange(left, data, mid + 1, hi) ELSE left

\* the shift register after data[0..len)
CrcUpdate(data, len) == CrcRange(65535, data, 1, len)

\* the CRC of data[0..len)
Crc14B(data, len) == Xor(CrcUpdate(data, len), 65535)

\* AddCrc14B(data, len): data[len] and data[len + 1] receive the CRC
AddCrc14B(data, len) ==
    LET crc == Crc14B(data, len)
    IN  [i \in 1..Len(data) |->
            IF i = len + 1 THEN crc % 256
            ELSE IF i = len + 2 THEN crc \div 256
            ELSE data[i]]

\* check_crc(CRC_14443_B, data, len)
check_crc(data, len) ==
    /\ len >= 3
    /\ LET crc == Crc14B(data, len - 2)
       IN  /\ data[len - 1] = crc % 256
           /\ data[len] = crc \div 256

(***************************************************************************)
(* Values of the variables a specification does not use.                   *)
(***************************************************************************)
FWT_TIMEOUT_14B == 35312
ISO14443B_READER_TIMEOUT == 1700
MAX_TIMEOUT == 40542464

NoCard == [uid |-> <<>>, uidlen |-> 0, atqb |-> <<>>, cid |-> 0, chipid |-> 0]

\* the codec specifications have no tag in the field
NoTag == [present |-> FALSE]

\* outside the tag simulation
NoSim == [running |-> FALSE]
NoReader == <<>>

\* outside the sniffer, and outside the wait loops
NoSniff == [running |-> FALSE]
NoHw == [waiting |-> FALSE]

\* pcbBefore:  pcb_blocknum when the last call began
\* apduPcb:    PCB byte of the latest APDU frame sent before the last call, -1 if none
\* selBetween: a select_card succeeded after that frame and before the last call
NoHist == [pcbBefore |-> 0, apduPcb |-> -1, selBetween |-> FALSE]

IdleCodec ==
    /\ M = <<>>
    /\ ToSend = tosend_reset
    /\ pos = 0
    /\ phase = <<0, 0>>

IdleProtocol ==
    /\ pcb_blocknum = 0
    /\ iso14b_timeout = FWT_TIMEOUT_14B
    /\ card = NoCard
    /\ lastTx = <<>>
    /\ lastRet = 0
    /\ lastCall = [op |-> "none"]
    /\ hist = NoHist
    /\ ncalls = 0
    /\ tag = NoTag
    /\ sim = NoSim
    /\ reader = NoReader
    /\ sniff = NoSniff
    /\ hw = NoHw

protoVars ==
    <<pcb_blocknum, iso14b_timeout, card, lastTx, lastRet, lastCall, hist, ncalls,
      tag, sim, reader, sniff, hw>>

(***************************************************************************)
(* SpecCodeReader: a reader frame is encoded and played, four envelope     *)
(* samples per stuffbit, into the freshly reset UART until it reports a    *)
(* frame or the stuffbits are used up.                                     *)
(***************************************************************************)
ReaderMsgs ==
    SeqsUpTo(ByteAlphabet, MaxLen)
        \cup {LongMsg(MAX_FRAME_SIZE - 1), LongMsg(MAX_FRAME_SIZE)}

InitCodeReader ==
    /\ pc = "start"
    /\ M \in ReaderMsgs
    /\ ToSend = tosend_reset
    /\ pos = 0
    /\ phase = <<0, 0>>
    /\ Uart = Uart14bInit
    /\ Demod = Demod14bInit(0)
    /\ ret = FALSE
    /\ stored = 0
    /\ tail = <<>>
    /\ IdleProtocol

EncodeReader ==
    /\ pc = "start"
    /\ ToSend' = CodeIso14443bAsReader(M)
    /\ pc' = "coded"
    /\ UNCHANGED <<M, pos, Uart, Demod, ret, phase, stored, tail>>
    /\ UNCHANGED protoVars

FeedUart ==
    /\ pc \in {"coded", "feeding"}
    /\ pos < 4 * NumStuffbits(ToSend)
    /\ LET r == Handle14443bSampleFromReader(Uart, StuffbitAt(ToSend, pos \div 4))
       IN  /\ Uart' = r.u
           /\ ret' = r.ret
           /\ pc' = IF r.ret THEN "done"
                    ELSE IF pos + 1 = 4 * NumStuffbits(ToSend) THEN "end"
                    ELSE "feeding"
    /\ pos' = pos + 1
    /\ UNCHANGED <<M, ToSend, Demod, phase, stored, tail>>
    /\ UNCHANGED protoVars

NextCodeReader == EncodeReader \/ FeedUart

SpecCodeReader == InitCodeReader /\ [][NextCodeReader]_vars

(***************************************************************************)
(* SpecCodeTag: a tag frame is encoded and played into the demodulator     *)
(* after Demod14bInit, two IQ samples per bit time (the encoder writes     *)
(* four stuffbits per bit time), logic 1 at the reference phase and        *)
(* logic 0 at the opposite phase.                                          *)
(***************************************************************************)
Phases == {<<20, 20>>, <<-20, 20>>, <<20, -20>>, <<-20, -20>>, <<9, 0>>, <<0, -9>>}

TagMsgs == SeqsUpTo(ByteAlphabet, MaxLen)

NumTagSamples(ts) == NumStuffbits(ts) \div 2

TagSample(ts, k, ph) ==
    IF StuffbitAt(ts, 2 * k) = 1 THEN ph ELSE <<-ph[1], -ph[2]>>

InitCodeTag ==
    /\ pc = "start"
    /\ M \in TagMsgs
    /\ ToSend = tosend_reset
    /\ pos = 0
    /\ phase \in Phases
    /\ Uart = Uart14bInit
    /\ Demod = Demod14bInit(Len(M))
    /\ ret = FALSE
    /\ stored = 0
    /\ tail = <<>>
    /\ IdleProtocol

EncodeTag ==
    /\ pc = "start"
    /\ ToSend' = CodeIso14443bAsTag(M)
    /\ pc' = "coded"
    /\ UNCHANGED <<M, pos, Uart, Demod, ret, phase, stored, tail>>
    /\ UNCHANGED protoVars

FeedDemod ==
    /\ pc \in {"coded", "feeding"}
    /\ pos < NumTagSamples(ToSend)
    /\ LET iq == TagSample(ToSend, pos, phase)
           r  == Handle14443bSamplesFromTag(Demod, iq[1], iq[2])
       IN  /\ Demod' = r.d
           /\ ret' = r.ret
           /\ pc' = IF r.ret THEN "done"
                    ELSE IF pos + 1 = NumTagSamples(ToSend) THEN "end"
                    ELSE "feeding"
    /\ pos' = pos + 1
    /\ UNCHANGED <<M, ToSend, Uart, phase, stored, tail>>
    /\ UNCHANGED protoVars

NextCodeTag == EncodeTag \/ FeedDemod

SpecCodeTag == InitCodeTag /\ [][NextCodeTag]_vars

(***************************************************************************)
(* Claims about the codec.                                                 *)
(***************************************************************************)
\* C1 as stated: for every M with |M| <= MAX_FRAME_SIZE, playing the stuffbits of
\* CodeIso14443bAsReader(M) into the reset UART makes it return true with
\* Uart.byteCnt = |M| and output[0..|M|) = M.
C1_RoundTripReaderAsStated ==
    /\ pc = "end" => Len(M) > MAX_FRAME_SIZE
    /\ (pc = "done" /\ Len(M) <= MAX_FRAME_SIZE) =>
           /\ ret = TRUE
           /\ Uart.byteCnt = Len(M)
           /\ SubSeq(Uart.output, 1, Len(M)) = M

\* C1 amended: the round trip holds for every M with 1 <= |M| < MAX_FRAME_SIZE.
\* The UART reports no frame for the empty message (an EOF with byteCnt = 0
\* returns false) nor for |M| = MAX_FRAME_SIZE (byteCnt reaching byteCntMax
\* aborts to Unsynced).
C1_RoundTripReader ==
    /\ (pc = "end" => ~(1 <= Len(M) /\ Len(M) < MAX_FRAME_SIZE))
    /\ (pc = "done" =>
           /\ 1 <= Len(M) /\ Len(M) < MAX_FRAME_SIZE
           /\ ret = TRUE
           /\ Uart.byteCnt = Len(M)
           /\ SubSeq(Uart.output, 1, Len(M)) = M)

C1_Witness ==
    /\ pc = "done"
    /\ ret = TRUE
    /\ Len(M) = MAX_FRAME_SIZE - 1
    /\ Uart.byteCnt = MAX_FRAME_SIZE - 1

\* C2: for every M with |M| <= max_len, playing CodeIso14443bAsTag(M) into the
\* demodulator after Demod14bInit, two IQ samples per bit time above the
\* threshold, makes it return true with Demod.len = |M| and output[0..|M|) = M.
C2_RoundTripTag ==
    /\ pc # "end"
    /\ (pc = "done" =>
           /\ ret = TRUE
           /\ Len(M) <= Demod.max_len
           /\ Demod.len = Len(M)
           /\ SubSeq(Demod.output, 1, Len(M)) = M)

C2_Witness ==
    /\ pc = "done"
    /\ ret = TRUE
    /\ Len(M) = 2
    /\ M[1] = 165
    /\ M[2] = 5
    /\ Demod.len = 2

\* The stuffbit the frame of M holds at position j (from 0): SOF of 10 zeros
\* and 2 ones, per octet a 0, the 8 data bits least-significant first and a 1,
\* an EOF of 10 zeros, then ones.
FrameBit(m, j) ==
    IF j < 10 THEN 0
    ELSE IF j < 12 THEN 1
    ELSE IF j < 12 + 10 * Len(m)
    THEN LET k == (j - 12) % 10
             b == m[((j - 12) \div 10) + 1]
         IN  IF k = 0 THEN 0 ELSE IF k = 9 THEN 1 ELSE (b \div Pow2(k - 1)) % 2
    ELSE IF j < 22 + 10 * Len(m) THEN 0
    ELSE 1

\* C3: CodeIso14443bAsReader(M) writes exactly 10 zeros, 2 ones, the framed
\* octets, 10 zeros and 8 ones (30 + 10n stuffbits, the rest of the last byte
\* left 0), and the valid-length cursor then equals the number of bytes written.
C3_ReaderEncoding ==
    pc = "coded" =>
        LET n == Len(M)
        IN  /\ NumStuffbits(ToSend) = 30 + 10 * n
            /\ \A j \in 0..(29 + 10 * n) : StuffbitAt(ToSend, j) = FrameBit(M, j)
            /\ \A j \in (30 + 10 * n)..(8 * Len(ToSend.buf) - 1) : StuffbitAt(ToSend, j) = 0
            /\ ToSend.max = Len(ToSend.buf)
            /\ ToSend.max = (30 + 10 * n + 7) \div 8

C3_Witness ==
    /\ pc = "coded"
    /\ Len(M) = MAX_FRAME_SIZE
    /\ NumStuffbits(ToSend) = 30 + 10 * MAX_FRAME_SIZE

\* C4: CodeIso14443bAsTag(M) emits every logical stuffbit four times; the
\* logical sequence is 20 ones (TR1), then the reader frame structure (10 zeros,
\* 2 ones, the framed octets, 10 zeros), then 2 ones; the cursor is then advanced
\* by one, to the number of bytes written.
C4_TagEncoding ==
    pc = "coded" =>
        LET n == Len(M)
        IN  /\ NumStuffbits(ToSend) = 4 * (44 + 10 * n)
            /\ \A j \in 0..(4 * (44 + 10 * n) - 1) :
                   StuffbitAt(ToSend, j) =
                       IF j \div 4 < 20 THEN 1
                       ELSE IF j \div 4 < 42 + 10 * n THEN FrameBit(M, (j \div 4) - 20)
                       ELSE 1
            /\ ToSend.max = Len(ToSend.buf)
            /\ ToSend.max = 22 + 5 * n

C4_Witness ==
    /\ pc = "coded"
    /\ Len(M) = 2
    /\ M[1] = 5
    /\ ToSend.max = 32

(***************************************************************************)
(* SpecDemod: the demodulator after Demod14bInit on IQ sample streams,     *)
(* with no reset in between, up to the first call that returns true (both  *)
(* callers stop or reset there).  Every sample is any of IQSamples, except *)
(* that once a start bit is detected the rest of that 10-bit character     *)
(* (19 samples) is one of CharTails.  Feeding stops once MaxStore bytes of *)
(* a frame are stored.                                                     *)
(***************************************************************************)
MaxStore == 2

IQ1 == <<10, 10>>
IQ0 == <<-10, -10>>
IQSilent == <<0, 0>>
IQSamples == {IQ1, IQ0, IQSilent}

\* the two half-bit samples of a clean bit
Halves(b) == IF b = 1 THEN <<IQ1, IQ1>> ELSE <<IQ0, IQ0>>

\* second half of the start bit, then data bits d (least-significant first) and
\* the stop bit, two samples each
CharTail(startHalf, d, stop) ==
    <<startHalf>> \o Halves(BitOf(d, 0)) \o Halves(BitOf(d, 1)) \o Halves(BitOf(d, 2))
        \o Halves(BitOf(d, 3)) \o Halves(BitOf(d, 4)) \o Halves(BitOf(d, 5))
        \o Halves(BitOf(d, 6)) \o Halves(BitOf(d, 7)) \o Halves(stop)

CharTails ==
    {CharTail(IQ0, 0, 0),       \* EOF
     CharTail(IQ0, 165, 1),     \* octet A5
     CharTail(IQ0, 0, 1),       \* octet 00
     CharTail(IQ0, 165, 0),     \* stop bit 0
     CharTail(IQ1, 255, 1),     \* start bit disturbed
     \* a data bit whose halves disagree
     <<IQ0, IQ1, IQ0>> \o SubSeq(CharTail(IQ0, 0, 1), 4, 19)}

InitDemod ==
    /\ pc = "run"
    /\ IdleCodec
    /\ Uart = Uart14bInit
    /\ Demod = Demod14bInit(MaxStore)
    /\ ret = FALSE
    /\ stored = 0
    /\ tail = <<>>
    /\ IdleProtocol

\* the bytes stored since the SOF, from what the call did to the demodulator
StoredAfter(D, D1, n) ==
    IF D.state = DEMOD_GOT_FALLING_EDGE_OF_SOF /\ D1.state = DEMOD_AWAITING_START_BIT
    THEN 0
    ELSE IF D.state = DEMOD_RECEIVING_DATA /\ D1.state = DEMOD_AWAITING_START_BIT
    THEN n + 1
    ELSE n

\* a freely chosen sample
FreeSample ==
    /\ pc = "run"
    /\ tail = <<>>
    /\ Demod.len < MaxStore
    /\ \E iq \in IQSamples :
         LET r == Handle14443bSamplesFromTag(Demod, iq[1], iq[2])
         IN  /\ Demod' = r.d
             /\ ret' = r.ret
             /\ stored' = StoredAfter(Demod, r.d, stored)
             /\ pc' = IF r.ret THEN "returned" ELSE "run"
             /\ IF r.d.state = DEMOD_RECEIVING_DATA /\ Demod.state # DEMOD_RECEIVING_DATA
                THEN tail' \in CharTails
                ELSE tail' = <<>>
    /\ UNCHANGED <<M, ToSend, pos, Uart, phase>>
    /\ UNCHANGED protoVars

\* the next sample of the character in progress
CharSample ==
    /\ pc = "run"
    /\ tail # <<>>
    /\ LET iq == Head(tail)
           r  == Handle14443bSamplesFromTag(Demod, iq[1], iq[2])
       IN  /\ Demod' = r.d
           /\ ret' = r.ret
           /\ stored' = StoredAfter(Demod, r.d, stored)
           /\ pc' = IF r.ret THEN "returned" ELSE "run"
    /\ tail' = Tail(tail)
    /\ UNCHANGED <<M, ToSend, pos, Uart, phase>>
    /\ UNCHANGED protoVars

NextDemod == FreeSample \/ CharSample

SpecDemod == InitDemod /\ [][NextDemod]_vars

\* C5 as stated: whenever a call returns true, Demod.shiftReg == 0x000.
C5_TrueOnlyAtEofAsStated == ret = TRUE => Demod.shiftReg = 0

\* C5 amended: whenever a call returns true, either it is the EOF return of
\* ReceivingData, and then the last decoded 10-bit symbol is an EOF
\* (shiftReg == 0x000), or it is the SOF-only return of AwaitingStartBit
\* (posCount > 12 with bitCount = 0 and len = 0), where shiftReg is left from
\* before the SOF and may be non-zero.
C5_TrueOnlyAtEof ==
    ret = TRUE =>
        \/ /\ Demod.state = DEMOD_UNSYNCD
           /\ Demod.shiftReg = 0
           /\ Demod.bitCount = 10
        \/ /\ Demod.state = DEMOD_AWAITING_START_BIT
           /\ Demod.posCount > 12
           /\ Demod.bitCount = 0
           /\ Demod.len = 0

C5_Witness ==
    /\ ret = TRUE
    /\ Demod.state = DEMOD_UNSYNCD
    /\ Demod.shiftReg = 0
    /\ Demod.len = 1

\* C6 as stated: a call returns true with Demod.len = 0 only through the
\* AwaitingStartBit timeout, never from ReceivingData (which leaves the
\* demodulator in Unsynced).
C6_EmptyFrameAsStated ==
    (ret = TRUE /\ Demod.len = 0) => Demod.state = DEMOD_AWAITING_START_BIT

\* C6 amended: a call returns true with Demod.len = 0 only when no byte has been
\* stored since the SOF was accepted: either through the AwaitingStartBit
\* timeout (v > 0, posCount > 12, no bit received) or from ReceivingData when
\* the character that directly follows the SOF is the EOF.
C6_EmptyFrame ==
    (ret = TRUE /\ Demod.len = 0) =>
        /\ stored = 0
        /\ \/ /\ Demod.state = DEMOD_AWAITING_START_BIT
              /\ Demod.posCount > 12
              /\ Demod.bitCount = 0
           \/ /\ Demod.state = DEMOD_UNSYNCD
              /\ Demod.shiftReg = 0

C6_Witness ==
    /\ ret = TRUE
    /\ Demod.len = 0
    /\ Demod.state = DEMOD_UNSYNCD
    /\ stored = 0

(***************************************************************************)
(* Reader side: the answer of the tag.  A tag that answers sends the       *)
(* frame coded by CodeIso14443bAsTag, two IQ samples per bit time, and is  *)
(* silent afterwards; a tag that does not answer is silent throughout.     *)
(***************************************************************************)
NoReply == [sent |-> FALSE, bytes |-> <<>>]
Reply(bytes) == [sent |-> TRUE, bytes |-> bytes]

\* reference phase of the answering tag
AnswerPhase == <<20, 20>>

\* sample k (from 0) of the answer whose coded frame is ts
AnswerSample(reply, ts, k) ==
    IF reply.sent /\ k < NumTagSamples(ts) THEN TagSample(ts, k, AnswerPhase)
    ELSE IQSilent

\* the loop reporting overflow as soon as the buffer is full
AnswerStep_OverflowWhenFull(st, iq, timeout) ==
    LET samples == st.samples + 1
        r == Handle14443bSamplesFromTag(st.d, iq[1], iq[2])
    IN  IF r.ret
        THEN [d |-> r.d, samples |-> samples, done |-> TRUE,
              ret |-> IF r.d.len >= r.d.max_len THEN -2 ELSE 0]
        ELSE IF samples > timeout /\ r.d.state < DEMOD_PHASE_REF_TRAINING
        THEN [d |-> r.d, samples |-> samples, done |-> TRUE, ret |-> -1]
        ELSE [d |-> r.d, samples |-> samples, done |-> FALSE, ret |-> 0]

\* the loop with the timeout test taken in every state of the demodulator
AnswerStep_TimeoutAnyState(st, iq, timeout) ==
    LET samples == st.samples + 1
        r == Handle14443bSamplesFromTag(st.d, iq[1], iq[2])
    IN  IF r.ret
        THEN [d |-> r.d, samples |-> samples, done |-> TRUE,
              ret |-> IF r.d.len > r.d.max_len THEN -2 ELSE 0]
        ELSE IF samples > timeout
        THEN [d |-> r.d, samples |-> samples, done |-> TRUE, ret |-> -1]
        ELSE [d |-> r.d, samples |-> samples, done |-> FALSE, ret |-> 0]

\* one turn of the loop of Get14443bAnswerFromTag; st = [d, samples, done, ret]
AnswerStep(st, iq, timeout) ==
    LET samples == st.samples + 1
        r == Handle14443bSamplesFromTag(st.d, iq[1], iq[2])
    IN  IF r.ret
        THEN [d |-> r.d, samples |-> samples, done |-> TRUE,
              ret |-> IF r.d.len > r.d.max_len THEN -2 ELSE 0]
        ELSE IF samples > timeout /\ r.d.state < DEMOD_PHASE_REF_TRAINING
        THEN [d |-> r.d, samples |-> samples, done |-> TRUE, ret |-> -1]
        ELSE [d |-> r.d, samples |-> samples, done |-> FALSE, ret |-> 0]

RECURSIVE AnswerTurns(_, _, _, _, _, _)
\* the turns of the loop for samples lo..hi, as far as the loop gets
AnswerTurns(st, reply, ts, timeout, lo, hi) ==
    IF st.done \/ lo > hi THEN st
    ELSE IF lo = hi THEN AnswerStep(st, AnswerSample(reply, ts, lo), timeout)
    ELSE LET mid  == (lo + hi) \div 2
             left == AnswerTurns(st, reply, ts, timeout, lo, mid)
         IN  IF left.done THEN left
             ELSE AnswerTurns(left, reply, ts, timeout, mid + 1, hi)

RECURSIVE AnswerLoop(_, _, _, _, _, _)
\* for (;;): the turns from sample lo on, n at a time, until a break
AnswerLoop(st, reply, ts, timeout, lo, n) ==
    LET part == AnswerTurns(st, reply, ts, timeout, lo, lo + n - 1)
    IN  IF part.done THEN part
        ELSE AnswerLoop(part, reply, ts, timeout, lo + n, 2 * n)

\* [ret |-> the value returned, d |-> Demod on return]; response is d.output.
\* A byte stored at index max_len or beyond lies outside the caller's buffer.
Get14443bAnswerFromTag(reply, max_len, timeout) ==
    LET ts  == CodeIso14443bAsTag(reply.bytes)
        st0 == [d |-> Demod14bInit(max_len), samples |-> 0, done |-> FALSE, ret |-> 0]
        end == AnswerLoop(st0, reply, ts, timeout, 0, 64)
    IN  [ret |-> IF end.ret < 0 THEN end.ret ELSE end.d.len, d |-> end.d]

iso14b_set_timeout(timeout) ==
    IF timeout > MAX_TIMEOUT THEN MAX_TIMEOUT ELSE timeout

iso14b_set_maxframesize(U, size) ==
    [U EXCEPT !.byteCntMax = IF size > 256 THEN MAX_FRAME_SIZE ELSE size]

(***************************************************************************)
(* SpecReader: after iso14443b_setup the host calls iso14443b_select_card  *)
(* and iso14443b_apdu in any order on the tag that is in the field.  A tag *)
(* is what it answers to WUPB, to ATTRIB and to an I-block; the reader     *)
(* receives each answer through Get14443bAnswerFromTag, which depends on   *)
(* nothing but the answer, the buffer size and the timeout, so the result  *)
(* of each reception is worked out when the tag enters the field.          *)
(***************************************************************************)
\* longest sequence of protocol calls explored
MaxCalls == 3

AtqbBody(k) == <<80, 130, 13, 225, 116, 32, 56, 25, 34, 0, 33, 16 * k + 5>>
Atqb(k) == AddCrc14B(AtqbBody(k) \o <<0, 0>>, 12)
\* the ATQB with frame-size nibble n (and FWI 8)
AtqbFrame(n) ==
    AddCrc14B(<<80, 130, 13, 225, 116, 32, 56, 25, 34, 0, 16 * n + 1, 133, 0, 0>>, 12)
AtqbShort == SubSeq(Atqb(8), 1, 13)
AtqbBadCrc == [Atqb(8) EXCEPT ![14] = (@ + 1) % 256]
AtqbLong == AddCrc14B(AtqbBody(8) \o <<0, 0, 0>>, 13)

AttribOk == <<0, 120, 240>>
AttribShort == <<0, 120>>
AttribBadCrc == <<0, 120, 241>>
AttribLong == AddCrc14B(<<0, 0, 0, 0>>, 2)

ApduOk == AddCrc14B(<<10, 0, 144, 0, 0, 0>>, 4)

\* the tags: one for every FWI nibble, one for every frame-size nibble, and one
\* for every way an answer fails
Tags ==
    {[atqb |-> Reply(Atqb(k)), attrib |-> Reply(AttribOk), apdu |-> Reply(ApduOk)] :
        k \in 0..15}
    \cup {[atqb |-> Reply(AtqbFrame(n)), attrib |-> Reply(AttribOk),
           apdu |-> Reply(ApduOk)] : n \in 0..15}
    \cup {[atqb |-> a, attrib |-> NoReply, apdu |-> NoReply] :
            a \in {NoReply, Reply(AtqbShort), Reply(AtqbBadCrc), Reply(AtqbLong)}}
    \cup {[atqb |-> Reply(Atqb(8)), attrib |-> a, apdu |-> NoReply] :
            a \in {NoReply, Reply(AttribShort), Reply(AttribBadCrc),
                   Reply(AttribLong)}}
    \cup {[atqb |-> Reply(Atqb(8)), attrib |-> Reply(AttribOk), apdu |-> a] :
            a \in {NoReply, Reply(AttribShort), Reply(AttribBadCrc)}}

\* the tag t in the field: rxAtqb, rxAttrib and rxApdu are what the calls
\* Get14443bAnswerFromTag(r_pupid, sizeof(r_pupid), ...), (r_attrib,
\* sizeof(r_attrib), ...) and (response, respmaxlen, ...) return on its answers
InField(t) ==
    [present  |-> TRUE,
     atqb     |-> t.atqb,
     attrib   |-> t.attrib,
     apdu     |-> t.apdu,
     rxAtqb   |-> Get14443bAnswerFromTag(t.atqb, 14, ISO14443B_READER_TIMEOUT),
     rxAttrib |-> Get14443bAnswerFromTag(t.attrib, 3, ISO14443B_READER_TIMEOUT),
     rxApdu   |-> Get14443bAnswerFromTag(t.apdu, MAX_FRAME_SIZE,
                                         ISO14443B_READER_TIMEOUT)]

\* whether a card descriptor is passed
SelectInputs == [hasCard : BOOLEAN]

\* the message and whether a response buffer (of MAX_FRAME_SIZE bytes) is passed
ApduInputs ==
    {[message |-> m, hasBuf |-> TRUE] : m \in {<<>>, <<144, 0>>}}
    \cup {[message |-> <<144, 0>>, hasBuf |-> FALSE]}

InitReader ==
    /\ pc = "idle"
    /\ IdleCodec
    /\ Uart = Uart14bInit
    /\ Demod = Demod14bInit(MAX_FRAME_SIZE)
    /\ ret = FALSE
    /\ stored = 0
    /\ tail = <<>>
    /\ pcb_blocknum = 0
    /\ iso14b_timeout = FWT_TIMEOUT_14B
    /\ card = NoCard
    /\ lastTx = <<>>
    /\ lastRet = 0
    /\ lastCall = [op |-> "none"]
    /\ hist = NoHist
    /\ ncalls = 0
    /\ tag \in {InField(t) : t \in Tags}
    /\ sim = NoSim
    /\ reader = NoReader
    /\ sniff = NoSniff
    /\ hw = NoHw

NextHist ==
    [pcbBefore  |-> pcb_blocknum,
     apduPcb    |-> IF lastCall.op = "apdu" THEN lastTx[1][1] ELSE hist.apduPcb,
     selBetween |-> /\ lastCall.op = "select"
                    /\ (hist.selBetween \/ lastRet = 0)]

WUPB == <<5, 0, 8, 57, 115>>

\* the ATTRIB command for the ATQB in r_pupid
AttribFor(r_pupid) ==
    AddCrc14B(<<29>> \o SubSeq(r_pupid, 2, 5)
                  \o <<0, 8, r_pupid[11] % 16, 0, 0, 0>>, 9)

MaxFrameOf_NoSteps(n) ==
    IF n < 9 THEN 8 * n + 16 ELSE 257

\* maximum frame size for the nibble card->atqb[5] >> 4
MaxFrameOf(n) ==
    IF n < 5 THEN 8 * n + 16
    ELSE IF n = 5 THEN 64
    ELSE IF n = 6 THEN 96
    ELSE IF n = 7 THEN 128
    ELSE IF n = 8 THEN 256
    ELSE 257

FwtTime_Linear(fwt) == 302 * fwt

\* uint32_t fwt_time = (302 << fwt); fwt is a nibble, so the value fits 32 bits
FwtTime(fwt) == 302 * Pow2(fwt)

\* what a return of iso14443b_select_card leaves behind
SelectReturns(in, r, tx, d, c, u, t, p) ==
    /\ lastRet' = r
    /\ lastTx' = tx
    /\ ToSend' = CodeIso14443bAsReader(tx[Len(tx)])
    /\ Demod' = d
    /\ card' = c
    /\ Uart' = u
    /\ iso14b_timeout' = t
    /\ pcb_blocknum' = p
    /\ lastCall' = [op |-> "select", hasCard |-> in.hasCard]

\* the second half of iso14443b_select_card, after a CRC-valid ATQB
SelectAttrib(in, r_pupid) ==
    LET a2       == tag.rxAttrib
        card1    == IF in.hasCard
                    THEN [card EXCEPT !.uidlen = 4,
                                      !.uid = SubSeq(r_pupid, 2, 5),
                                      !.atqb = SubSeq(r_pupid, 6, 12)]
                    ELSE card
        tx       == <<WUPB, AttribFor(r_pupid)>>
        r_attrib == a2.d.output
        fwt      == card1.atqb[7] \div 16
    IN  IF a2.ret < 3
        THEN SelectReturns(in, -1, tx, a2.d, card1, Uart, iso14b_timeout, pcb_blocknum)
        ELSE IF ~check_crc(r_attrib, a2.ret)
        THEN SelectReturns(in, -2, tx, a2.d, card1, Uart, iso14b_timeout, pcb_blocknum)
        ELSE IF in.hasCard
        THEN SelectReturns(in, 0, tx, a2.d,
                 [card1 EXCEPT !.cid = r_attrib[1]],
                 iso14b_set_maxframesize(Uart, MaxFrameOf(card1.atqb[6] \div 16)),
                 IF fwt < 16 THEN iso14b_set_timeout(FwtTime(fwt)) ELSE iso14b_timeout,
                 0)
        ELSE SelectReturns(in, 0, tx, a2.d, card1, Uart, iso14b_timeout, 0)

iso14443b_select_card ==
    /\ pc = "idle"
    /\ ncalls < MaxCalls
    /\ ncalls' = ncalls + 1
    /\ \E in \in SelectInputs :
        LET a1      == tag.rxAtqb
            r_pupid == a1.d.output
        IN  IF a1.ret < 14
            THEN SelectReturns(in, -1, <<WUPB>>, a1.d, card, Uart, iso14b_timeout,
                               pcb_blocknum)
            ELSE IF ~check_crc(r_pupid, a1.ret)
            THEN SelectReturns(in, -2, <<WUPB>>, a1.d, card, Uart, iso14b_timeout,
                               pcb_blocknum)
            ELSE SelectAttrib(in, r_pupid)
    /\ hist' = NextHist
    /\ UNCHANGED <<pc, M, pos, ret, phase, stored, tail, tag, sim, reader, sniff, hw>>

ApduFrame_PcbAfterToggle(pcb, message) ==
    AddCrc14B(<<Or(10, Xor(pcb, 1)), 0>> \o message \o <<0, 0>>, Len(message) + 2)

\* message_frame: PCB, CID, INF, EDC
ApduFrame(pcb, message) ==
    AddCrc14B(<<Or(10, pcb), 0>> \o message \o <<0, 0>>, Len(message) + 2)

PcbToggle_Set(pcb) == Or(pcb, 1)

\* pcb_blocknum ^= 1
PcbToggle(pcb) == Xor(pcb, 1)

\* what a return of iso14443b_apdu leaves behind
ApduReturns(in, r, tx, d) ==
    /\ lastRet' = r
    /\ lastTx' = <<tx>>
    /\ ToSend' = CodeIso14443bAsReader(tx)
    /\ Demod' = d
    /\ lastCall' = [op |-> "apdu", message |-> in.message, hasBuf |-> in.hasBuf]

iso14443b_apdu ==
    /\ pc = "idle"
    /\ ncalls < MaxCalls
    /\ ncalls' = ncalls + 1
    /\ \E in \in ApduInputs :
        \E message_frame \in {ApduFrame(pcb_blocknum, in.message)} :
        IF ~in.hasBuf
        THEN ApduReturns(in, 0, message_frame, Demod)
        ELSE LET a == tag.rxApdu
             IN
             IF a.ret < 3
             THEN ApduReturns(in, 0, message_frame, a.d)
             ELSE IF ~check_crc(a.d.output, a.ret)
             THEN ApduReturns(in, 0, message_frame, a.d)
             ELSE \* the return type is uint8_t
                  ApduReturns(in, a.ret % 256, message_frame, a.d)
    /\ pcb_blocknum' = PcbToggle(pcb_blocknum)
    /\ hist' = NextHist
    /\ UNCHANGED <<pc, M, pos, Uart, ret, phase, stored, tail, iso14b_timeout, card,
                   tag, sim, reader, sniff, hw>>

NextReader == iso14443b_select_card \/ iso14443b_apdu

SpecReader == InitReader /\ [][NextReader]_vars

(***************************************************************************)
(* SpecSrx: iso14443b_select_srx_card on the SRx tag that is in the field. *)
(* The tag is what it answers to INITIATE, to SELECT and to GET_UID; each  *)
(* answer is received through Get14443bAnswerFromTag into r_init[3],       *)
(* r_select[3] and r_papid[10].                                            *)
(***************************************************************************)
ISO14443B_INITIATE == 6
ISO14443B_SELECT == 14
ISO14443B_GET_UID == 11

\* init_srx
InitSrxCmd == <<ISO14443B_INITIATE, 0, 151, 91>>

\* the answer to INITIATE and to SELECT of the chip with this id
ChipIdFrame(id) == AddCrc14B(<<id, 0, 0>>, 1)

SrxUid == <<1, 2, 3, 4, 5, 6, 2, 208>>
SrxUidFrame == AddCrc14B(SrxUid \o <<0, 0>>, 8)

BadCrc(frame) == [frame EXCEPT ![Len(frame)] = (@ + 1) % 256]

\* the SRx tags: the chips 66 and 200 answering well, and one tag for every
\* way an answer fails
SrxTags ==
    {[init |-> Reply(ChipIdFrame(id)), select |-> Reply(ChipIdFrame(id)),
      uid |-> Reply(SrxUidFrame)] : id \in {66, 200}}
    \cup {[init |-> a, select |-> NoReply, uid |-> NoReply] :
            a \in {NoReply, Reply(<<>>), Reply(AddCrc14B(<<66, 0, 0, 0>>, 2))}}
    \cup {[init |-> a, select |-> Reply(ChipIdFrame(66)), uid |-> Reply(SrxUidFrame)] :
            a \in {Reply(<<66>>), Reply(<<66, 0>>), Reply(BadCrc(ChipIdFrame(66))),
                   Reply(ChipIdFrame(200)), Reply(<<200>>)}}
    \cup {[init |-> Reply(ChipIdFrame(66)), select |-> a, uid |-> Reply(SrxUidFrame)] :
            a \in {NoReply, Reply(<<>>), Reply(<<66, 0>>),
                   Reply(AddCrc14B(<<66, 0, 0, 0>>, 2)),
                   Reply(BadCrc(ChipIdFrame(66))), Reply(BadCrc(ChipIdFrame(200))),
                   Reply(ChipIdFrame(200))}}
    \cup {[init |-> Reply(ChipIdFrame(66)), select |-> Reply(ChipIdFrame(66)),
           uid |-> a] :
            a \in {NoReply, Reply(SubSeq(SrxUidFrame, 1, 9)),
                   Reply(AddCrc14B(SrxUid \o <<0, 0, 0>>, 9)),
                   Reply(BadCrc(SrxUidFrame)), Reply(ChipIdFrame(66))}}

\* the SRx tag t in the field with what the three receptions return
SrxInField(t) ==
    [present  |-> TRUE,
     init     |-> t.init,
     select   |-> t.select,
     uid      |-> t.uid,
     rxInit   |-> Get14443bAnswerFromTag(t.init, 3, ISO14443B_READER_TIMEOUT),
     rxSelect |-> Get14443bAnswerFromTag(t.select, 3, ISO14443B_READER_TIMEOUT),
     rxUid    |-> Get14443bAnswerFromTag(t.uid, 10, ISO14443B_READER_TIMEOUT)]

InitSrx ==
    /\ pc = "idle"
    /\ IdleCodec
    /\ Uart = Uart14bInit
    /\ Demod = Demod14bInit(MAX_FRAME_SIZE)
    /\ ret = FALSE
    /\ stored = 0
    /\ tail = <<>>
    /\ pcb_blocknum = 0
    /\ iso14b_timeout = FWT_TIMEOUT_14B
    /\ card = NoCard
    /\ lastTx = <<>>
    /\ lastRet = 0
    /\ lastCall = [op |-> "none"]
    /\ hist = NoHist
    /\ ncalls = 0
    /\ tag \in {SrxInField(t) : t \in SrxTags}
    /\ sim = NoSim
    /\ reader = NoReader
    /\ sniff = NoSniff
    /\ hw = NoHw

\* what a return of iso14443b_select_srx_card leaves behind
SrxReturns(in, r, tx, d, c) ==
    /\ lastRet' = r
    /\ lastTx' = tx
    /\ ToSend' = CodeIso14443bAsReader(tx[Len(tx)])
    /\ Demod' = d
    /\ card' = c
    /\ lastCall' = [op |-> "select_srx", hasCard |-> in.hasCard]

\* the tests on the answer to SELECT without the comparison of the chip id
SrxSelectChecks_NoEcho(select_srx, r_select, retlen) ==
    IF retlen # 3 THEN 2
    ELSE IF ~check_crc(r_select, retlen) THEN 3
    ELSE 0

\* the tests on the answer to SELECT: the value returned, 0 to go on
SrxSelectChecks(select_srx, r_select, retlen) ==
    IF retlen # 3 THEN 2
    ELSE IF ~check_crc(r_select, retlen) THEN 3
    ELSE IF select_srx[2] # r_select[1] THEN 1
    ELSE 0

\* the last third of iso14443b_select_srx_card, after the echoed chip id
SrxGetUid(in, tx, card1, select_srx) ==
    LET get_uid == SubSeq(AddCrc14B([select_srx EXCEPT ![1] = ISO14443B_GET_UID], 1),
                          1, 3)
        a3      == tag.rxUid
        r_papid == a3.d.output
        tx3     == Append(tx, get_uid)
    IN  IF a3.ret # 10 THEN SrxReturns(in, 2, tx3, a3.d, card1)
        ELSE IF ~check_crc(r_papid, a3.ret) THEN SrxReturns(in, 3, tx3, a3.d, card1)
        ELSE SrxReturns(in, 0, tx3, a3.d,
                 IF in.hasCard
                 THEN [card1 EXCEPT !.uidlen = 8, !.uid = SubSeq(r_papid, 1, 8)]
                 ELSE card1)

iso14443b_select_srx_card ==
    /\ pc = "idle"
    /\ ncalls < MaxCalls
    /\ ncalls' = ncalls + 1
    /\ \E in \in SelectInputs :
        LET a1     == tag.rxInit
            r_init == a1.d.output
        IN  IF a1.ret <= 0
            THEN SrxReturns(in, 2, <<InitSrxCmd>>, a1.d, card)
            ELSE LET card1      == IF in.hasCard
                                   THEN [card EXCEPT !.chipid = a1.d.output[1]]
                                   ELSE card
                     select_srx == AddCrc14B(<<ISO14443B_SELECT, r_init[1], 0, 0>>, 2)
                     tx         == <<InitSrxCmd, select_srx>>
                     a2         == tag.rxSelect
                     r          == SrxSelectChecks(select_srx, a2.d.output, a2.ret)
                 IN  IF r # 0 THEN SrxReturns(in, r, tx, a2.d, card1)
                     ELSE SrxGetUid(in, tx, card1, select_srx)
    /\ hist' = NextHist
    /\ UNCHANGED <<pc, M, pos, Uart, ret, phase, stored, tail, iso14b_timeout,
                   pcb_blocknum, tag, sim, reader, sniff, hw>>

NextSrx == iso14443b_select_srx_card

SpecSrx == InitSrx /\ [][NextSrx]_vars

\* C27: iso14443b_select_srx_card returns 0 only when INITIATE was answered,
\* the answer to SELECT has exactly 3 bytes, a valid CRC and the chip id that
\* was sent, and the answer to GET_UID has exactly 10 bytes and a valid CRC,
\* and then a card descriptor that was passed holds uidlen = 8 and the first 8
\* bytes of the answer to GET_UID as uid; an answer of the wrong length returns
\* 2, one of the right length with a wrong CRC returns 3, and no command is
\* transmitted after the step that failed.
C27_SrxReturnCodes ==
    lastCall.op = "select_srx" =>
        LET init     == tag.init
            select   == tag.select.bytes
            uid      == tag.uid.bytes
            answered == init.sent /\ Len(init.bytes) \in 1..3
            sent     == lastTx[2][2]
            len2     == answered /\ tag.select.sent /\ Len(select) = 3
            crc2     == len2 /\ check_crc(select, 3)
            echo2    == crc2 /\ select[1] = sent
            len3     == echo2 /\ tag.uid.sent /\ Len(uid) = 10
            crc3     == len3 /\ check_crc(uid, 10)
        IN  /\ lastRet \in 0..3
            /\ lastRet = 0 <=> crc3
            /\ lastRet = 0 /\ lastCall.hasCard =>
                   card.uidlen = 8 /\ card.uid = SubSeq(uid, 1, 8)
            /\ lastRet = 2 <=> ~answered \/ (answered /\ ~len2) \/ (echo2 /\ ~len3)
            /\ lastRet = 3 <=> (len2 /\ ~crc2) \/ (len3 /\ ~crc3)
            /\ lastRet = 1 <=> crc2 /\ ~echo2
            /\ Len(lastTx) = (IF ~answered THEN 1 ELSE IF ~echo2 THEN 2 ELSE 3)
            /\ lastTx[1] = InitSrxCmd
            /\ answered => lastTx[2] = AddCrc14B(<<ISO14443B_SELECT, init.bytes[1], 0, 0>>, 2)
            /\ echo2 => lastTx[3] = SubSeq(AddCrc14B(<<ISO14443B_GET_UID, sent, 0>>, 1), 1, 3)

\* the chip 200 has been selected with a card descriptor
C27_Witness ==
    /\ lastCall.op = "select_srx"
    /\ lastCall.hasCard
    /\ lastRet = 0
    /\ Len(lastTx) = 3
    /\ lastTx[2][2] = 200
    /\ card.chipid = 200
    /\ card.uidlen = 8
    /\ card.uid = SrxUid

(***************************************************************************)
(* SpecApdu: iso14443b_apdu with response buffers of several sizes and     *)
(* answers of up to 259 bytes.                                             *)
(***************************************************************************)
\* a CRC-valid answer of n >= 3 bytes
AnswerOfLen(n) == AddCrc14B(LongMsg(n), n - 2)

ApduReplies ==
    {NoReply, Reply(<<>>), Reply(<<10, 0>>), Reply(BadCrc(AnswerOfLen(3))),
     Reply(BadCrc(ApduOk)), Reply(ApduOk)}
    \cup {Reply(AnswerOfLen(n)) : n \in {3, 4, 255, 256, 257, 259}}

\* respmaxlen is a uint16_t
RespMaxLens == {5, 6, MAX_FRAME_SIZE, 300}

\* the tag answering an I-block with reply, received into a buffer of
\* respmaxlen bytes
ApduInField(reply, respmaxlen) ==
    [present    |-> TRUE,
     apdu       |-> reply,
     respmaxlen |-> respmaxlen,
     rxApdu     |-> Get14443bAnswerFromTag(reply, respmaxlen,
                                           ISO14443B_READER_TIMEOUT)]

InitApdu ==
    /\ pc = "idle"
    /\ IdleCodec
    /\ Uart = Uart14bInit
    /\ Demod = Demod14bInit(MAX_FRAME_SIZE)
    /\ ret = FALSE
    /\ stored = 0
    /\ tail = <<>>
    /\ pcb_blocknum = 0
    /\ iso14b_timeout = FWT_TIMEOUT_14B
    /\ card = NoCard
    /\ lastTx = <<>>
    /\ lastRet = 0
    /\ lastCall = [op |-> "none"]
    /\ hist = NoHist
    /\ ncalls = 0
    /\ tag \in {ApduInField(r, m) : r \in ApduReplies, m \in RespMaxLens}
    /\ sim = NoSim
    /\ reader = NoReader
    /\ sniff = NoSniff
    /\ hw = NoHw

NextApdu == iso14443b_apdu

SpecApdu == InitApdu /\ [][NextApdu]_vars

\* C28: iso14443b_apdu returns 0 for every failure (no response buffer, no
\* answer, an answer shorter than 3 bytes, an answer longer than respmaxlen, a
\* wrong CRC) and returns L for every CRC-valid answer of L >= 3 bytes with
\* L <= respmaxlen, so the result is nonzero exactly when a CRC-valid answer
\* was received.
C28_ApduReturn ==
    lastCall.op = "apdu" =>
        LET bytes == tag.apdu.bytes
            L     == Len(bytes)
            valid == /\ lastCall.hasBuf
                     /\ tag.apdu.sent
                     /\ L >= 3
                     /\ L <= tag.respmaxlen
                     /\ check_crc(bytes, L)
        IN  /\ valid => lastRet = L
            /\ ~valid => lastRet = 0
            /\ lastRet # 0 <=> valid

(***************************************************************************)
(* SpecSof: the start of frame in both decoders.  Either the UART is fed   *)
(* envelope samples through Handle14443bSampleFromReader or the            *)
(* demodulator IQ samples through Handle14443bSamplesFromTag, every sample *)
(* freely chosen, from the initialised decoder on until the decoder has    *)
(* accepted a start of frame.  lastCall keeps the sample and the decoder   *)
(* as the call found it; hist.low counts the samples of the low phase the  *)
(* demodulator has seen, the one of the falling edge included.             *)
(***************************************************************************)
InitSof ==
    /\ pc \in {"uartsof", "demodsof"}
    /\ IdleCodec
    /\ Uart = Uart14bInit
    /\ Demod = Demod14bInit(MAX_FRAME_SIZE)
    /\ ret = FALSE
    /\ stored = 0
    /\ tail = <<>>
    /\ pcb_blocknum = 0
    /\ iso14b_timeout = FWT_TIMEOUT_14B
    /\ card = NoCard
    /\ lastTx = <<>>
    /\ lastRet = 0
    /\ lastCall = [op |-> "none"]
    /\ hist = [low |-> 0]
    /\ ncalls = 0
    /\ tag = NoTag
    /\ sim = NoSim
    /\ reader = NoReader
    /\ sniff = NoSniff
    /\ hw = NoHw

\* one call of Handle14443bSampleFromReader
UartSofSample ==
    /\ pc = "uartsof"
    /\ Uart.state <= STATE_14B_GOT_FALLING_EDGE_OF_SOF
    /\ \E bit \in {0, 1} :
         LET r == Handle14443bSampleFromReader(Uart, bit)
         IN  /\ Uart' = r.u
             /\ ret' = r.ret
             /\ lastCall' = [op |-> "uart", bit |-> bit, before |-> Uart]
    /\ UNCHANGED <<pc, M, ToSend, pos, Demod, phase, stored, tail, pcb_blocknum,
                   iso14b_timeout, card, lastTx, lastRet, hist, ncalls, tag, sim,
                   reader, sniff, hw>>

\* one call of Handle14443bSamplesFromTag
DemodSofSample ==
    /\ pc = "demodsof"
    /\ Demod.state <= DEMOD_GOT_FALLING_EDGE_OF_SOF
    /\ \E iq \in IQSamples :
         LET r == Handle14443bSamplesFromTag(Demod, iq[1], iq[2])
             v == MAKE_SOFT_DECISION(Demod, iq[1], iq[2])
         IN  /\ Demod' = r.d
             /\ ret' = r.ret
             /\ lastCall' = [op |-> "demod", v |-> v, before |-> Demod]
             /\ hist' = [low |->
                    IF Demod.state = DEMOD_AWAITING_FALLING_EDGE_OF_SOF /\ v < 0
                    THEN 1
                    ELSE IF Demod.state = DEMOD_GOT_FALLING_EDGE_OF_SOF /\ v <= 0
                    THEN hist.low + 1
                    ELSE hist.low]
    /\ UNCHANGED <<pc, M, ToSend, pos, Uart, phase, stored, tail, pcb_blocknum,
                   iso14b_timeout, card, lastTx, lastRet, ncalls, tag, sim, reader,
                   sniff, hw>>

NextSof == UartSofSample \/ DemodSofSample

SpecSof == InitSof /\ [][NextSof]_vars

\* the call found the UART in GotSofFallingEdge one sample before the middle
\* of a bit, so that it samples (posCnt becomes 2)
UartSofSampled ==
    /\ lastCall.op = "uart"
    /\ lastCall.before.state = STATE_14B_GOT_FALLING_EDGE_OF_SOF
    /\ lastCall.before.posCnt + 1 = 2

DemodSofSampled ==
    /\ lastCall.op = "demod"
    /\ lastCall.before.state = DEMOD_GOT_FALLING_EDGE_OF_SOF

UartMaxMsgs == {LongMsg(n) : n \in {1, 15, 16, 17, MAX_FRAME_SIZE}}

UartMaxLimits ==
    {Uart14bInit}
    \cup {iso14b_set_maxframesize(Uart14bInit, MaxFrameOf(n)) : n \in 0..15}

InitUartMax ==
    /\ pc = "start"
    /\ M \in UartMaxMsgs
    /\ ToSend = tosend_reset
    /\ pos = 0
    /\ phase = <<0, 0>>
    /\ Uart \in UartMaxLimits
    /\ Demod = Demod14bInit(0)
    /\ ret = FALSE
    /\ stored = 0
    /\ tail = <<>>
    /\ IdleProtocol

NextUartMax == EncodeReader \/ FeedUart

SpecUartMax == InitUartMax /\ [][NextUartMax]_vars

\* C31: byteCntMax is at most MAX_FRAME_SIZE; every call that stores a byte
\* (byteCnt goes up by one in ReceivingData) stores it at an index below
\* byteCntMax; a call that brings byteCnt to byteCntMax leaves the UART in
\* Unsynced and returns false; and a call that returns true leaves
\* 1 <= byteCnt < byteCntMax.
C31_UartBounds ==
    [][LET stores == /\ Uart.state = STATE_14B_RECEIVING_DATA
                     /\ Uart'.byteCnt = Uart.byteCnt + 1
       IN  /\ Uart'.byteCntMax = Uart.byteCntMax
           /\ Uart.byteCntMax <= MAX_FRAME_SIZE
           /\ stores => Uart.byteCnt >= 0 /\ Uart.byteCnt < Uart.byteCntMax
           /\ (stores /\ Uart'.byteCnt >= Uart'.byteCntMax) =>
                  Uart'.state = STATE_14B_UNSYNCD /\ ~ret'
           /\ Uart'.byteCnt <= Uart'.byteCntMax
           /\ ret' => Uart'.byteCnt >= 1 /\ Uart'.byteCnt < Uart'.byteCntMax]_vars

\* a frame of 16 bytes under byteCntMax = 16: the 16th byte is stored and
\* the UART gives up
C31_Witness ==
    /\ pc = "feeding"
    /\ Len(M) = 16
    /\ Uart.byteCntMax = 16
    /\ Uart.byteCnt = 16
    /\ Uart.state = STATE_14B_UNSYNCD
    /\ ~ret

(***************************************************************************)
(* SpecEncode: either encoder on an octet sequence; lastCall.op says which *)
(* one ran.  The logical stuffbits are read back from the buffer: one per  *)
(* buffer bit for the reader's encoder, one per four buffer bits for the   *)
(* tag's (SEND4STUFFBIT).                                                  *)
(***************************************************************************)
\* octets with the longest runs of zeros and of ones, and with a zero next to
\* the start bit or to the stop bit
RunBytes == {0, 1, 128, 255}

EncodeMsgs == SeqsUpTo(RunBytes, 3)

InitEncode ==
    /\ pc = "start"
    /\ M \in EncodeMsgs
    /\ ToSend = tosend_reset
    /\ pos = 0
    /\ phase = <<0, 0>>
    /\ Uart = Uart14bInit
    /\ Demod = Demod14bInit(0)
    /\ ret = FALSE
    /\ stored = 0
    /\ tail = <<>>
    /\ IdleProtocol

EncodeAsReader ==
    /\ pc = "start"
    /\ ToSend' = CodeIso14443bAsReader(M)
    /\ lastCall' = [op |-> "reader"]
    /\ pc' = "coded"
    /\ UNCHANGED <<M, pos, Uart, Demod, ret, phase, stored, tail, pcb_blocknum,
                   iso14b_timeout, card, lastTx, lastRet, hist, ncalls, tag, sim,
                   reader, sniff, hw>>

EncodeAsTag ==
    /\ pc = "start"
    /\ ToSend' = CodeIso14443bAsTag(M)
    /\ lastCall' = [op |-> "tag"]
    /\ pc' = "coded"
    /\ UNCHANGED <<M, pos, Uart, Demod, ret, phase, stored, tail, pcb_blocknum,
                   iso14b_timeout, card, lastTx, lastRet, hist, ncalls, tag, sim,
                   reader, sniff, hw>>

NextEncode == EncodeAsReader \/ EncodeAsTag

SpecEncode == InitEncode /\ [][NextEncode]_vars

\* the logical stuffbits of the buffer, per buffer bits each
LogicalBits(ts, per) ==
    [k \in 1..(NumStuffbits(ts) \div per) |-> StuffbitAt(ts, per * (k - 1))]

\* [from, len] of every maximal run of zeros in bits
ZeroRuns(bits) ==
    {[from |-> i, len |-> j - i + 1] : <<i, j>> \in
        {<<a, b>> \in (1..Len(bits)) \X (1..Len(bits)) :
            /\ a <= b
            /\ \A k \in a..b : bits[k] = 0
            /\ a = 1 \/ bits[a - 1] = 1
            /\ b = Len(bits) \/ bits[b + 1] = 1}}

\* C39: in the logical stuffbits of either encoder, for any octet sequence,
\* there are exactly two runs of 10 or more zeros, the low phase of the SOF at
\* the start of the frame and the EOF at its end, each of exactly 10; every
\* run of zeros inside the data is of 9 at most, and the high phase of the SOF
\* is of exactly 2 ones.
C39_Delimiters ==
    pc = "coded" =>
        LET per  == IF lastCall.op = "tag" THEN 4 ELSE 1
            bits == LogicalBits(ToSend, per)
            runs == ZeroRuns(bits)
            long == {r \in runs : r.len >= 10}
            sof  == IF lastCall.op = "tag" THEN 21 ELSE 1
            eof  == sof + 12 + 10 * Len(M)
        IN  /\ per * Len(bits) = NumStuffbits(ToSend)
            /\ \A j \in 0..(NumStuffbits(ToSend) - 1) :
                 StuffbitAt(ToSend, j) = bits[(j \div per) + 1]
            /\ long = {[from |-> sof, len |-> 10], [from |-> eof, len |-> 10]}
            /\ \A k \in 1..(sof - 1) : bits[k] = 1
            /\ bits[sof + 10] = 1 /\ bits[sof + 11] = 1 /\ bits[sof + 12] = 0
            /\ \A r \in runs \ long :
                 r.len <= 9 /\ r.from > sof + 11 /\ r.from + r.len < eof
            /\ \A k \in (eof + 10)..Len(bits) : bits[k] = 1

\* the tag's encoder has coded three octets 00: runs of 9 zeros in the data
C39_Witness ==
    /\ pc = "coded"
    /\ lastCall.op = "tag"
    /\ M = <<0, 0, 0>>
    /\ [from |-> 33, len |-> 9] \in ZeroRuns(LogicalBits(ToSend, 4))
    /\ [from |-> 63, len |-> 10] \in ZeroRuns(LogicalBits(ToSend, 4))

(***************************************************************************)
(* SpecTimeout: the host sends SET_TIMEOUT requests (SendRawCommand14443B  *)
(* with ISO14B_SET_TIMEOUT) and selects the card in the field, in any      *)
(* order.  The requested timeout is a uint32_t; it is kept here in its two *)
(* 16-bit halves, timeout = 65536 * hi + lo, so that every 32-bit value    *)
(* can be requested.                                                       *)
(***************************************************************************)
\* timeout > bound, for timeout in halves and bound >= 0
U32Above(hi, lo, bound) ==
    \/ hi > bound \div 65536
    \/ hi = bound \div 65536 /\ lo > bound % 65536

\* the setter clamping on the high half only
iso14b_set_timeout32_HighHalfOnly(hi, lo) ==
    IF hi > MAX_TIMEOUT \div 65536 THEN MAX_TIMEOUT ELSE 65536 * hi + lo

\* iso14b_set_timeout(timeout) for timeout = 65536 * hi + lo
iso14b_set_timeout32(hi, lo) ==
    IF U32Above(hi, lo, MAX_TIMEOUT) THEN MAX_TIMEOUT ELSE 65536 * hi + lo

\* c->oldarg[2] as uint32_t: values around the limit and at the ends of the
\* range
TimeoutRequests ==
    {<<0, 0>>, <<0, 1>>, <<1, 11776>>,            \* 0, 1, 77312
     <<618, 41215>>, <<618, 41216>>, <<618, 41217>>,
     <<619, 0>>, <<32767, 65535>>, <<32768, 0>>, <<65535, 65535>>}

\* if ((param & ISO14B_SET_TIMEOUT)) iso14b_set_timeout(timeout);
SetTimeoutRequest ==
    /\ pc = "idle"
    /\ ncalls < MaxCalls
    /\ ncalls' = ncalls + 1
    /\ \E t \in TimeoutRequests :
        /\ iso14b_timeout' = iso14b_set_timeout32(t[1], t[2])
        /\ lastCall' = [op |-> "set_timeout", hi |-> t[1], lo |-> t[2]]
    /\ hist' = NextHist
    /\ UNCHANGED <<pc, M, ToSend, pos, Uart, Demod, ret, phase, stored, tail,
                   pcb_blocknum, card, lastTx, lastRet, tag, sim, reader, sniff, hw>>

NextTimeout == SetTimeoutRequest \/ iso14443b_select_card

SpecTimeout == InitReader /\ [][NextTimeout]_vars

\* C32: iso14b_timeout never exceeds 40542464, whatever SET_TIMEOUT requests
\* and card selections came before; a request above the bound stores exactly
\* 40542464 and a request at or below it stores the requested value.
C32_TimeoutBound ==
    /\ iso14b_timeout \in 0..MAX_TIMEOUT
    /\ MAX_TIMEOUT = 40542464
    /\ lastCall.op = "set_timeout" =>
         LET hi == lastCall.hi
             lo == lastCall.lo
         IN  /\ hi > 618 => iso14b_timeout = 40542464
             /\ hi = 618 /\ lo > 41216 => iso14b_timeout = 40542464
             /\ hi = 618 /\ lo <= 41216 => iso14b_timeout = 65536 * 618 + lo
             /\ hi < 618 => iso14b_timeout = 65536 * hi + lo
             \* the halves and the plain value agree where both can be written
             /\ hi < 32768 =>
                  iso14b_timeout = iso14b_set_timeout(65536 * hi + lo)

\* 0xFFFFFFFF has been requested after a card selection had set the timeout
C32_Witness ==
    /\ lastCall.op = "set_timeout"
    /\ lastCall.hi = 65535 /\ lastCall.lo = 65535
    /\ iso14b_timeout = MAX_TIMEOUT
    /\ card.uidlen = 4

(***************************************************************************)
(* SpecTransmit: CodeIso14443bAsReader followed by                         *)
(* TransmitFor14443b_AsReader, with the SSP clock it reads.  The clock and *)
(* *start_time are uint32_t; they are kept in two 16-bit halves            *)
(* <<hi, lo>>, value 65536 * hi + lo.  hw.at is the statement the function *)
(* is at, hw.clock the clock, hw.skipped the ticks since the function last *)
(* read it (the function reads it at least every MaxSkip ticks while it    *)
(* waits; what the clock does while the wait loop is more than LeapTo      *)
(* ticks before its target is one step, since every pass of the loop then  *)
(* finds the same), hw.requested the caller's *start_time, hw.late whether *)
(* line                                                                    *)
(* 1020 found the clock past the target, hw.now the clock read at line     *)
(* 1021, hw.exitClock the clock read by the pass that left the wait loop;  *)
(* the words written to SSC_THR are collected in tail and pos is the       *)
(* cursor c into the buffer.                                               *)
(***************************************************************************)
MaxSkip == 2
LeapTo == 20

DELAY_ARM_TO_TAG == 16

U32Less(a, b) == a[1] < b[1] \/ (a[1] = b[1] /\ a[2] < b[2])

\* a + k without the wrap, for 0 <= k < 65536: the high half may reach 65536
WidePlus(a, k) == <<a[1] + (a[2] + k) \div 65536, (a[2] + k) % 65536>>

\* a + k in uint32_t
U32Plus(a, k) == <<WidePlus(a, k)[1] % 65536, WidePlus(a, k)[2]>>

\* a - k in uint32_t, for 0 <= k < 65536
U32Minus(a, k) ==
    IF a[2] >= k THEN <<a[1], a[2] - k>>
    ELSE <<(a[1] + 65535) % 65536, a[2] + 65536 - k>>

\* a & 0xfffffff0
U32Align16(a) == <<a[1], a[2] - (a[2] % 16)>>

\* the words with the least significant bit first
WordsOfByte_LsbFirst(data) ==
    [k \in 1..16 |-> IF BitOf(data, (k - 1) \div 2) = 1 THEN 0 ELSE 65535]

\* the two words of each bit of data, most significant bit first:
\* send_word = (data & 0x80) ? 0x0000 : 0xffff; data <<= 1
WordsOfByte(data) ==
    [k \in 1..16 |-> IF BitOf(data, 7 - ((k - 1) \div 2)) = 1 THEN 0 ELSE 65535]

TransmitMsgs == {<<>>, <<5>>, <<0, 255>>}

TransmitTimes ==
    {<<0, 0>>, <<0, 5>>, <<0, 16>>, <<0, 17>>, <<0, 32>>, <<0, 40>>, <<0, 48>>,
     <<65535, 65504>>, <<65535, 65519>>, <<65535, 65520>>, <<65535, 65525>>,
     <<65535, 65535>>}

InitTransmit ==
    /\ pc = "start"
    /\ M \in TransmitMsgs
    /\ ToSend = tosend_reset
    /\ pos = 0
    /\ phase = <<0, 0>>
    /\ Uart = Uart14bInit
    /\ Demod = Demod14bInit(0)
    /\ ret = FALSE
    /\ stored = 0
    /\ tail = <<>>
    /\ pcb_blocknum = 0
    /\ iso14b_timeout = FWT_TIMEOUT_14B
    /\ card = NoCard
    /\ lastTx = <<>>
    /\ lastRet = 0
    /\ lastCall = [op |-> "none"]
    /\ hist = NoHist
    /\ ncalls = 0
    /\ tag = NoTag
    /\ sim = NoSim
    /\ reader = NoReader
    /\ sniff = NoSniff
    /\ \E s \in TransmitTimes, k \in TransmitTimes :
         /\ hw = [waiting |-> FALSE, at |-> "entry", requested |-> s,
                  start_time |-> s, clock |-> k, skipped |-> 0, late |-> FALSE,
                  now |-> <<0, 0>>, exitClock |-> <<0, 0>>]

\* the function is in its wait loop more than LeapTo ticks before the target
FarFromTarget(h) ==
    /\ h.at = "wait"
    /\ ~U32Less(h.start_time, <<0, LeapTo>>)
    /\ U32Less(h.clock, U32Minus(h.start_time, LeapTo))

\* the SSP clock advances by one tick
Tick ==
    /\ pc = "coded"
    /\ hw.at \in {"entry", "check", "late", "wait"}
    /\ ~FarFromTarget(hw)
    /\ hw.skipped < MaxSkip
    /\ hw' = [hw EXCEPT !.clock = U32Plus(@, 1), !.skipped = @ + 1]
    /\ UNCHANGED <<pc, M, ToSend, pos, Uart, Demod, ret, phase, stored, tail,
                   pcb_blocknum, iso14b_timeout, card, lastTx, lastRet, lastCall,
                   hist, ncalls, tag, sim, reader, sniff>>

\* the SSP clock advances to LeapTo ticks before the target while the wait
\* loop polls it: every pass in between finds the clock below the target
Leap ==
    /\ pc = "coded"
    /\ FarFromTarget(hw)
    /\ hw' = [hw EXCEPT !.clock = U32Minus(hw.start_time, LeapTo), !.skipped = 0]
    /\ UNCHANGED <<pc, M, ToSend, pos, Uart, Demod, ret, phase, stored, tail,
                   pcb_blocknum, iso14b_timeout, card, lastTx, lastRet, lastCall,
                   hist, ncalls, tag, sim, reader, sniff>>

\* one statement, or one pass of a loop, of TransmitFor14443b_AsReader:
\* [hw, pos, tail]
TransmitStep(h, ts, c, sent) ==
    CASE h.at = "entry" ->
           \* if (*start_time < DELAY_ARM_TO_TAG) *start_time = DELAY_ARM_TO_TAG;
           \* *start_time = (*start_time - DELAY_ARM_TO_TAG) & 0xfffffff0;
           [hw |-> [h EXCEPT !.at = "check",
                           !.start_time =
                               U32Align16(U32Minus(IF U32Less(@, <<0, DELAY_ARM_TO_TAG>>)
                                                   THEN <<0, DELAY_ARM_TO_TAG>> ELSE @,
                                                   DELAY_ARM_TO_TAG))],
            pos |-> c, tail |-> sent]
      [] h.at = "check" ->
           \* if (GetCountSspClk() > *start_time)
           [hw |-> [h EXCEPT !.at = IF U32Less(h.start_time, h.clock) THEN "late"
                                    ELSE "wait",
                           !.late = U32Less(h.start_time, h.clock),
                           !.skipped = 0],
            pos |-> c, tail |-> sent]
      [] h.at = "late" ->
           \* *start_time = (GetCountSspClk() + 16) & 0xfffffff0;
           [hw |-> [h EXCEPT !.at = "wait",
                           !.start_time = U32Align16(U32Plus(h.clock, 16)),
                           !.now = h.clock,
                           !.skipped = 0],
            pos |-> c, tail |-> sent]
      [] h.at = "wait" ->
           \* while (GetCountSspClk() < *start_time) ;
           [hw |-> [h EXCEPT !.at = IF U32Less(h.clock, h.start_time) THEN "wait"
                                    ELSE "send",
                           !.exitClock = h.clock,
                           !.skipped = 0],
            pos |-> c, tail |-> sent]
      [] h.at = "send" /\ c < ts.max ->
           \* one pass of for (c = 0; c < ts->max; c++): 8 bits, 2 words each
           [hw |-> h, pos |-> c + 1, tail |-> sent \o WordsOfByte(ts.buf[c + 1])]
      [] h.at = "send" /\ c >= ts.max ->
           \* *start_time += DELAY_ARM_TO_TAG;
           [hw |-> [h EXCEPT !.at = "done",
                           !.start_time = U32Plus(@, DELAY_ARM_TO_TAG)],
            pos |-> c, tail |-> sent]

TransmitFor14443b_AsReader ==
    /\ pc = "coded"
    /\ hw.at # "done"
    /\ \E r \in {TransmitStep(hw, ToSend, pos, tail)} :
         /\ hw' = r.hw
         /\ pos' = r.pos
         /\ tail' = r.tail
    /\ UNCHANGED <<pc, M, ToSend, Uart, Demod, ret, phase, stored,
                   pcb_blocknum, iso14b_timeout, card, lastTx, lastRet, lastCall,
                   hist, ncalls, tag, sim, reader, sniff>>

NextTransmit == EncodeReader \/ Tick \/ Leap \/ TransmitFor14443b_AsReader

SpecTransmit == InitTransmit /\ [][NextTransmit]_vars

\* the clock advances and the function takes its steps
SpecTransmitLive ==
    SpecTransmit /\ WF_vars(Tick \/ Leap) /\ WF_vars(TransmitFor14443b_AsReader)

\* the target of the claim, computed in the integers: [hi, lo] with hi up to
\* 65536
C33_Target ==
    IF hw.late THEN U32Align16(WidePlus(hw.now, 16))
    ELSE U32Align16(U32Minus(IF U32Less(hw.requested, <<0, 16>>) THEN <<0, 16>>
                             ELSE hw.requested, 16))

\* C33: the first word is pushed only once the clock has reached target,
\* where target is (max(start_time, 16) - 16) rounded down to a multiple of
\* 16 or, if the clock had passed that, (now + 16) rounded down to a multiple
\* of 16; on return *start_time = target + 16, a multiple of 16.
C33_TransmitSchedule ==
    /\ hw.at \in {"send", "done"} => ~U32Less(hw.exitClock, C33_Target)
    /\ hw.at = "done" =>
         /\ hw.start_time = WidePlus(C33_Target, 16)
         /\ hw.start_time[2] % 16 = 0

\* the same with target and target + 16 taken modulo 2^32, as the function
\* stores them
C33_ScheduleModulo ==
    LET target == <<C33_Target[1] % 65536, C33_Target[2]>>
    IN  /\ hw.at \in {"send", "done"} => ~U32Less(hw.exitClock, target)
        /\ hw.at = "done" =>
             /\ hw.start_time = U32Plus(target, 16)
             /\ hw.start_time[2] % 16 = 0

\* the clock was within 16 ticks of its wrap when line 1021 read it
C33_Witness ==
    /\ hw.at = "done"
    /\ hw.late
    /\ hw.now[1] = 65535 /\ hw.now[2] >= 65520
    /\ hw.start_time = <<0, 16>>

\* the wait ends when the clock keeps advancing
C33_WaitEnds == (hw.at = "wait") ~> (hw.at = "done")

\* C34: the function returns only after it has pushed, for each of the
\* ts->max bytes of the buffer in order and each of its bits most significant
\* first, two equal words, 0x0000 for a 1 and 0xffff for a 0: 16 * ts->max
\* words in all; it reads the buffer below ts->max only.
C34_TransmitDrain ==
    /\ hw.at = "send" =>
         /\ pos \in 0..ToSend.max
         /\ ToSend.max <= Len(ToSend.buf)
         /\ Len(tail) = 16 * pos
    /\ hw.at = "done" =>
         /\ pos = ToSend.max
         /\ Len(tail) = 16 * ToSend.max
         /\ \A c \in 0..(ToSend.max - 1), i \in 0..7 :
              LET bit  == (ToSend.buf[c + 1] \div Pow2(7 - i)) % 2
                  word == IF bit = 1 THEN 0 ELSE 65535
              IN  /\ tail[16 * c + 2 * i + 1] = word
                  /\ tail[16 * c + 2 * i + 2] = word
    /\ hw.at \notin {"send", "done"} => tail = <<>>

\* the frame of <<0, 255>> has been sent: 7 bytes, 112 words
C34_Witness ==
    /\ hw.at = "done"
    /\ M = <<0, 255>>
    /\ ToSend.max = 7
    /\ Len(tail) = 112
    /\ tail[1] = 65535 /\ tail[21] = 0

(***************************************************************************)
(* SpecDma: the DMA ring of Get14443bAnswerFromTag (hw.mode = "receive")   *)
(* and SniffIso14443b (hw.mode = "sniff") with the PDC that fills it.      *)
(* Pointers are offsets into dma->buf, in samples.  hw.rpr, hw.rcr,        *)
(* hw.rnpr and hw.rncr are PDC_RPR, PDC_RCR, PDC_RNPR and PDC_RNCR,        *)
(* hw.endrx the ENDRX status, hw.buf the ring, hw.upTo the cursor of the   *)
(* loop.  The samples are numbered as they are produced; hw.produced is    *)
(* the number of the last one, hw.consumed the numbers the loop read, in   *)
(* order, hw.overrun whether the PDC was ever a full buffer or more ahead  *)
(* of the loop, and hw.pass what the last pass of the loop saw and, in     *)
(* armed, the four registers as a pass that read a sample left them.       *)
(* What the pass then does with the sample is in SpecAnswer and SpecSniff. *)
(***************************************************************************)
DmaLog == 2
MaxLaps == 3

DMA_BUFFER_SIZE == Pow2(DmaLog)

\* FpgaSetupSscDma(dma->buf, DMA_BUFFER_SIZE) and upTo = dma->buf
DmaStart(mode) ==
    [waiting |-> FALSE, mode |-> mode,
     rpr |-> 0, rcr |-> DMA_BUFFER_SIZE, rnpr |-> 0, rncr |-> DMA_BUFFER_SIZE,
     endrx |-> FALSE, buf |-> [k \in 0..(DMA_BUFFER_SIZE - 1) |-> 0],
     upTo |-> 0, produced |-> 0, consumed |-> <<>>, overrun |-> FALSE,
     pass |-> [read |-> FALSE, rpr |-> 0, upTo |-> 0, wrapped |-> FALSE,
               endrx |-> FALSE, rcr |-> DMA_BUFFER_SIZE, rncr |-> DMA_BUFFER_SIZE,
               armed |-> <<>>]]

InitDma ==
    /\ pc = "dma"
    /\ M = <<>>
    /\ ToSend = tosend_reset
    /\ pos = 0
    /\ phase = <<0, 0>>
    /\ Uart = Uart14bInit
    /\ Demod = Demod14bInit(0)
    /\ ret = FALSE
    /\ stored = 0
    /\ tail = <<>>
    /\ pcb_blocknum = 0
    /\ iso14b_timeout = FWT_TIMEOUT_14B
    /\ card = NoCard
    /\ lastTx = <<>>
    /\ lastRet = 0
    /\ lastCall = [op |-> "none"]
    /\ hist = NoHist
    /\ ncalls = 0
    /\ tag = NoTag
    /\ sim = NoSim
    /\ reader = NoReader
    /\ sniff = NoSniff
    /\ \E mode \in {"receive", "sniff"} : hw = DmaStart(mode)

\* The PDC stores one sample: it writes at PDC_RPR, advances the pointer and
\* decrements PDC_RCR; when the counter reaches zero ENDRX is set and, if
\* PDC_RNCR is not zero, the next pointer and counter are loaded and
\* PDC_RNCR is zeroed.  With PDC_RCR at zero the PDC is stopped.
PdcStore(h) ==
    LET id    == h.produced + 1
        last  == h.rcr = 1
        ahead == id - Len(h.consumed)
    IN  [h EXCEPT !.buf = [@ EXCEPT ![h.rpr % DMA_BUFFER_SIZE] = id],
                  !.produced = id,
                  !.rpr = IF last /\ h.rncr > 0 THEN h.rnpr ELSE h.rpr + 1,
                  !.rcr = IF last /\ h.rncr > 0 THEN h.rncr ELSE h.rcr - 1,
                  !.rncr = IF last THEN 0 ELSE @,
                  !.endrx = IF last THEN TRUE ELSE @,
                  !.overrun = @ \/ ahead >= DMA_BUFFER_SIZE]

DmaProduce ==
    /\ pc = "dma"
    /\ hw.rcr > 0
    /\ hw.produced < MaxLaps * DMA_BUFFER_SIZE
    /\ hw' = PdcStore(hw)
    /\ UNCHANGED <<pc, M, ToSend, pos, Uart, Demod, ret, phase, stored, tail,
                   pcb_blocknum, iso14b_timeout, card, lastTx, lastRet, lastCall,
                   hist, ncalls, tag, sim, reader, sniff>>

\* ((uint16_t *)PDC_RPR - upTo) & (DMA_BUFFER_SIZE - 1)
BehindBy(rpr, upTo) == (rpr - upTo) % DMA_BUFFER_SIZE

\* a counter that is never re-armed
Rearm_Never(wrapped, endrx, counter) == FALSE

\* upTo has wrapped, ENDRX is set and the counter register is zero
Rearm(wrapped, endrx, counter) == wrapped /\ endrx /\ counter = 0

\* One pass of the for (;;) of either loop, up to the call of the decoder.
RingPass(h) ==
    LET read    == BehindBy(h.rpr, h.upTo) # 0
        wrapped == h.upTo + 1 >= DMA_BUFFER_SIZE
        primary == Rearm(wrapped, h.endrx, h.rcr)
        second  == Rearm(wrapped, h.endrx, h.rncr)
        after   == [rpr  |-> IF primary THEN 0 ELSE h.rpr,
                    rcr  |-> IF primary THEN DMA_BUFFER_SIZE ELSE h.rcr,
                    rnpr |-> IF second THEN 0 ELSE h.rnpr,
                    rncr |-> IF second THEN DMA_BUFFER_SIZE ELSE h.rncr]
        seen    == [read |-> read, rpr |-> h.rpr, upTo |-> h.upTo,
                    wrapped |-> read /\ wrapped, endrx |-> h.endrx,
                    rcr |-> h.rcr, rncr |-> h.rncr,
                    armed |-> IF read THEN <<after>> ELSE <<>>]
    IN  IF ~read
        THEN \* behindBy == 0: continue
             [h EXCEPT !.pass = seen]
        ELSE [h EXCEPT !.pass = seen,
                       !.consumed = Append(@, h.buf[h.upTo]),
                       !.upTo = IF seen.wrapped THEN 0 ELSE h.upTo + 1,
                       !.rpr = after.rpr,
                       !.rcr = after.rcr,
                       !.rnpr = after.rnpr,
                       !.rncr = after.rncr,
                       \* a write to PDC_RCR or PDC_RNCR clears ENDRX
                       !.endrx = IF primary \/ second THEN FALSE ELSE @]

DmaConsume ==
    /\ pc = "dma"
    /\ hw' = RingPass(hw)
    /\ UNCHANGED <<pc, M, ToSend, pos, Uart, Demod, ret, phase, stored, tail,
                   pcb_blocknum, iso14b_timeout, card, lastTx, lastRet, lastCall,
                   hist, ncalls, tag, sim, reader, sniff>>

NextDma == DmaProduce \/ DmaConsume

SpecDma == InitDma /\ [][NextDma]_vars

\* C35: a pass reads a slot only when PDC_RPR differs from the cursor, then
\* advances the cursor by one slot and wraps it to the base at the end of the
\* buffer; a pass at the wrap that finds both counters at zero re-arms both
\* with the base and the full length; and as long as the PDC has never been a
\* full buffer ahead, the samples read are the samples produced, each once and
\* in order, and the PDC is not stopped.
C35_DmaRing ==
    /\ hw.pass.read =>
         /\ hw.pass.rpr # hw.pass.upTo
         /\ hw.upTo = IF hw.pass.upTo + 1 = DMA_BUFFER_SIZE THEN 0
                      ELSE hw.pass.upTo + 1
    /\ hw.upTo \in 0..(DMA_BUFFER_SIZE - 1)
    /\ (hw.pass.read /\ hw.pass.wrapped /\ hw.pass.rcr = 0 /\ hw.pass.rncr = 0) =>
         hw.pass.armed = <<[rpr |-> 0, rcr |-> DMA_BUFFER_SIZE,
                            rnpr |-> 0, rncr |-> DMA_BUFFER_SIZE]>>
    /\ ~hw.overrun =>
         /\ hw.consumed = [k \in 1..Len(hw.consumed) |-> k]
         /\ Len(hw.consumed) <= hw.produced
         /\ hw.rcr > 0

\* three laps of the ring consumed in order, the PDC never a buffer ahead
C35_Witness ==
    /\ ~hw.overrun
    /\ hw.mode = "sniff"
    /\ Len(hw.consumed) = MaxLaps * DMA_BUFFER_SIZE
    /\ hw.pass.wrapped /\ hw.pass.endrx /\ hw.pass.rncr = 0

\* the PDC has stopped with both counters at zero and the loop re-armed it
C35_WitnessRearm ==
    /\ hw.pass.read /\ hw.pass.wrapped /\ hw.pass.rcr = 0 /\ hw.pass.rncr = 0
    /\ hw.rcr > 0

\* the PDC is stopped at the end of the buffer with the cursor at the base:
\* outside the proviso of C35, every pass finds behindBy = 0
C35_Stuck ==
    ~(hw.rcr = 0 /\ hw.rpr = DMA_BUFFER_SIZE /\ hw.upTo = 0 /\ ~hw.pass.read)

(***************************************************************************)
(* Tag simulation: SimulateIso14443bTag.                                   *)
(***************************************************************************)
RECURSIVE UartTurns(_, _, _, _)
\* Handle14443bSampleFromReader on samples lo..hi of the coded frame ts, four
\* samples per stuffbit, up to the first call that returns true
UartTurns(st, ts, lo, hi) ==
    IF st.ret \/ lo > hi THEN st
    ELSE IF lo = hi
    THEN Handle14443bSampleFromReader(st.u, StuffbitAt(ts, lo \div 4))
    ELSE LET mid  == (lo + hi) \div 2
             left == UartTurns(st, ts, lo, mid)
         IN  IF left.ret THEN left
             ELSE UartTurns(left, ts, mid + 1, hi)

\* [ret |-> TRUE, received |-> the frame stored, len |-> *len, u |-> Uart] when
\* the reader sends frame; ret is FALSE if the UART reports no frame
GetIso14443bCommandFromReader(frame) ==
    LET ts  == CodeIso14443bAsReader(frame)
        end == UartTurns([u |-> Uart14bInit, ret |-> FALSE], ts,
                         0, 4 * NumStuffbits(ts) - 1)
    IN  [ret      |-> end.ret,
         received |-> SubSeq(end.u.output, 1, end.u.byteCnt),
         len      |-> end.u.byteCnt,
         u        |-> end.u]

ISO14443B_REQB == 5
ISO14443B_HALT == 80
ISO14443B_ATTRIB == 29

SIM_NOFIELD == "SIM_NOFIELD"
SIM_IDLE == "SIM_IDLE"
SIM_HALTED == "SIM_HALTED"
SIM_SELECTING == "SIM_SELECTING"
SIM_HALTING == "SIM_HALTING"
SIM_ACKNOWLEDGE == "SIM_ACKNOWLEDGE"
SIM_WORK == "SIM_WORK"

\* a uint32_t pupi is held as its two 16-bit halves <<high, low>>
PupiIsZero(pupi) == pupi[1] = 0 /\ pupi[2] = 0

\* num_to_bytes(pupi, 4, dest): the four bytes, most significant first
num_to_bytes(pupi) ==
    <<pupi[1] \div 256, pupi[1] % 256, pupi[2] \div 256, pupi[2] % 256>>

\* the ATQB answered when no PUPI is supplied
DefaultATQB == <<80, 130, 13, 225, 116, 32, 56, 25, 34, 0, 33, 133, 94, 215>>

RespATQB_CrcKept(pupi) ==
    IF ~PupiIsZero(pupi)
    THEN <<DefaultATQB[1]>> \o num_to_bytes(pupi) \o SubSeq(DefaultATQB, 6, 14)
    ELSE DefaultATQB

\* respATQB once the PUPI supplied by the user is put in
RespATQB(pupi) ==
    IF ~PupiIsZero(pupi)
    THEN AddCrc14B(<<DefaultATQB[1]>> \o num_to_bytes(pupi) \o SubSeq(DefaultATQB, 6, 14),
                   12)
    ELSE DefaultATQB

\* response to HLTB and ATTRIB
respOK == <<0, 120, 240>>

\* CodeIso14443bAsTag(cmd) followed by memcpy(encoded, ts->buf, ts->max)
Encoded(cmd) ==
    LET ts == CodeIso14443bAsTag(cmd)
    IN  SubSeq(ts.buf, 1, ts.max)

\* "REQ or WUP request in ANY state, WUP in HALTED state": cardSTATE after the
\* test made on every command of five bytes
SimWake(cardSTATE, receivedCmd, len) ==
    IF len = 5
       /\ \/ /\ receivedCmd[1] = ISO14443B_REQB
             /\ BitOf(receivedCmd[3], 3) = 1
             /\ cardSTATE = SIM_HALTED
          \/ receivedCmd[1] = ISO14443B_REQB
    THEN SIM_SELECTING
    ELSE cardSTATE

\* the switch with SIM_WORK kept on a command it does not know
SimSwitch_OtherKeepsWork(S, cardSTATE, receivedCmd, len) ==
    CASE cardSTATE \in {SIM_HALTED, SIM_IDLE} ->
            [tx |-> <<>>, cardSTATE |-> cardSTATE]
      [] cardSTATE = SIM_SELECTING ->
            [tx |-> <<S.encodedATQB>>, cardSTATE |-> SIM_WORK]
      [] cardSTATE = SIM_HALTING ->
            [tx |-> <<S.encodedOK>>, cardSTATE |-> SIM_HALTED]
      [] cardSTATE = SIM_ACKNOWLEDGE ->
            [tx |-> <<S.encodedOK>>, cardSTATE |-> SIM_IDLE]
      [] cardSTATE = SIM_WORK ->
            IF len = 7 /\ receivedCmd[1] = ISO14443B_HALT
            THEN [tx |-> <<>>, cardSTATE |-> SIM_HALTED]
            ELSE IF len = 11 /\ receivedCmd[1] = ISO14443B_ATTRIB
            THEN [tx |-> <<>>, cardSTATE |-> SIM_ACKNOWLEDGE]
            ELSE [tx |-> <<>>, cardSTATE |-> SIM_WORK]
      [] OTHER -> [tx |-> <<>>, cardSTATE |-> cardSTATE]

\* switch (cardSTATE): the encoded frames transmitted and the next cardSTATE.
\* The CRC check on other commands in SIM_WORK only prints a debug message.
SimSwitch(S, cardSTATE, receivedCmd, len) ==
    CASE cardSTATE \in {SIM_HALTED, SIM_IDLE} ->
            [tx |-> <<>>, cardSTATE |-> cardSTATE]
      [] cardSTATE = SIM_SELECTING ->
            [tx |-> <<S.encodedATQB>>, cardSTATE |-> SIM_WORK]
      [] cardSTATE = SIM_HALTING ->
            [tx |-> <<S.encodedOK>>, cardSTATE |-> SIM_HALTED]
      [] cardSTATE = SIM_ACKNOWLEDGE ->
            [tx |-> <<S.encodedOK>>, cardSTATE |-> SIM_IDLE]
      [] cardSTATE = SIM_WORK ->
            IF len = 7 /\ receivedCmd[1] = ISO14443B_HALT
            THEN [tx |-> <<>>, cardSTATE |-> SIM_HALTED]
            ELSE IF len = 11 /\ receivedCmd[1] = ISO14443B_ATTRIB
            THEN [tx |-> <<>>, cardSTATE |-> SIM_ACKNOWLEDGE]
            ELSE [tx |-> <<>>, cardSTATE |-> SIM_IDLE]
      [] OTHER -> [tx |-> <<>>, cardSTATE |-> cardSTATE]

(***************************************************************************)
(* SpecSim: SimulateIso14443bTag(pupi) from the entry of its loop, one     *)
(* turn of the loop per step.  reader[c] is what                           *)
(* GetIso14443bCommandFromReader delivers when the reader sends c; it      *)
(* depends on nothing but c and is worked out when the simulation starts.  *)
(* lastTx holds the encoded frames transmitted in the last turn, lastCall  *)
(* the command of that turn, hist the cardSTATE in which that command was  *)
(* received and the number of commands received before it.                 *)
(***************************************************************************)
\* most commands received in one simulation
MaxCmds == 4

SimPupis == {<<0, 0>>, <<57005, 48879>>, <<0, 1>>}

\* WUPB, REQB, a REQB with a wrong CRC and another command of five bytes;
\* HLTB, with a wrong CRC, and another command of seven bytes; ATTRIB, with a
\* wrong CRC, and another command of eleven bytes; an I-block, with a wrong
\* CRC, and a command of one byte
SimCommands ==
    {<<5, 0, 8, 57, 115>>, <<5, 0, 0, 113, 255>>, <<5, 0, 0, 0, 0>>,
     AddCrc14B(<<6, 0, 8, 0, 0>>, 3),
     AddCrc14B(<<80, 130, 13, 225, 116, 0, 0>>, 5), <<80, 130, 13, 225, 116, 0, 0>>,
     AddCrc14B(<<10, 0, 1, 2, 3, 0, 0>>, 5),
     AddCrc14B(<<29, 130, 13, 225, 116, 0, 8, 1, 0, 0, 0>>, 9),
     <<29, 130, 13, 225, 116, 0, 8, 1, 0, 0, 0>>,
     AddCrc14B(<<10, 0, 1, 2, 3, 4, 5, 6, 7, 0, 0>>, 9),
     AddCrc14B(<<10, 0, 0, 0>>, 2), <<10, 0, 0, 0>>, <<11>>}

InitSim ==
    /\ pc = "sim"
    /\ M = <<>>
    /\ ToSend = CodeIso14443bAsTag(respOK)
    /\ pos = 0
    /\ phase = <<0, 0>>
    /\ Uart = Uart14bInit
    /\ Demod = Demod14bInit(0)
    /\ ret = FALSE
    /\ stored = 0
    /\ tail = <<>>
    /\ pcb_blocknum = 0
    /\ iso14b_timeout = FWT_TIMEOUT_14B
    /\ card = NoCard
    /\ lastTx = <<>>
    /\ lastRet = 0
    /\ lastCall = [op |-> "none"]
    /\ hist = [cardSTATE |-> SIM_NOFIELD, cmdsReceived |-> 0]
    /\ ncalls = 0
    /\ tag = NoTag
    /\ \E pupi \in SimPupis :
         sim = [running      |-> TRUE,
                pupi         |-> pupi,
                respATQB     |-> RespATQB(pupi),
                encodedATQB  |-> Encoded(RespATQB(pupi)),
                encodedOK    |-> Encoded(respOK),
                cardSTATE    |-> SIM_NOFIELD,
                cmdsReceived |-> 0,
                receivedCmd  |-> <<>>,
                len          |-> 0]
    /\ reader = [c \in SimCommands |-> GetIso14443bCommandFromReader(c)]
    /\ sniff = NoSniff
    /\ hw = NoHw

\* one turn of the simulation loop: the field is looked for while cardSTATE is
\* SIM_NOFIELD, then a command is received and acted on
SimLoop ==
    /\ pc = "sim"
    /\ sim.cmdsReceived < MaxCmds
    /\ \E fieldFound \in BOOLEAN, c \in SimCommands :
         LET found == IF sim.cardSTATE = SIM_NOFIELD /\ fieldFound
                      THEN SIM_IDLE ELSE sim.cardSTATE
             r     == reader[c]
             woken == SimWake(found, r.received, r.len)
             out   == SimSwitch(sim, woken, r.received, r.len)
         IN  IF found = SIM_NOFIELD
             THEN \* continue
                  UNCHANGED <<Uart, lastTx, lastCall, hist, sim>>
             ELSE /\ r.ret
                  /\ Uart' = r.u
                  /\ lastTx' = out.tx
                  /\ lastCall' = [op |-> "command", frame |-> c]
                  /\ hist' = [cardSTATE |-> found, cmdsReceived |-> sim.cmdsReceived]
                  /\ sim' = [sim EXCEPT !.cardSTATE = out.cardSTATE,
                                        !.cmdsReceived = (@ + 1) % 65536,
                                        !.receivedCmd = r.received,
                                        !.len = r.len]
    /\ UNCHANGED <<pc, M, ToSend, pos, Demod, ret, phase, stored, tail, pcb_blocknum,
                   iso14b_timeout, card, lastRet, ncalls, tag, reader, sniff, hw>>

\* the button is pressed or the host has data: the loop ends
SimStop ==
    /\ pc = "sim"
    /\ pc' = "stopped"
    /\ sim' = [sim EXCEPT !.running = FALSE]
    /\ lastTx' = <<>>
    /\ lastCall' = [op |-> "stop"]
    /\ UNCHANGED <<M, ToSend, pos, Uart, Demod, ret, phase, stored, tail, pcb_blocknum,
                   iso14b_timeout, card, lastRet, hist, ncalls, tag, reader, sniff, hw>>

NextSim == SimLoop \/ SimStop

SpecSim == InitSim /\ [][NextSim]_vars

\* the last turn received a command of len bytes whose first byte is b
SimReceived(len, b) ==
    /\ lastCall.op = "command"
    /\ Len(lastCall.frame) = len
    /\ lastCall.frame[1] = b

\* C16 as stated: whenever the emulator is in Work and receives a 7-byte frame
\* whose first byte is 0x50, it transmits the OK response 00 78 F0 (passing
\* through Halting) and its state becomes Halted.
C16_HaltAnswered ==
    hist.cardSTATE = SIM_WORK /\ SimReceived(7, 80) =>
        /\ lastTx = <<Encoded(<<0, 120, 240>>)>>
        /\ sim.cardSTATE = SIM_HALTED

\* C17 as stated: in state Halted, a 5-byte frame starting 0x05 whose byte 2
\* has bit 0x08 clear is ignored (state stays Halted, nothing is transmitted),
\* while one with bit 0x08 set moves the emulator to Selecting and makes it
\* answer with ATQB.
C17_WakeUpRule ==
    hist.cardSTATE = SIM_HALTED /\ SimReceived(5, 5) =>
        IF BitOf(lastCall.frame[3], 3) = 0
        THEN sim.cardSTATE = SIM_HALTED /\ lastTx = <<>>
        ELSE sim.cardSTATE = SIM_WORK /\ lastTx = <<sim.encodedATQB>>

\* the ATQB of the claim for the PUPI <<high, low>>
AtqbWithPupi(pupi) ==
    LET body == <<80, pupi[1] \div 256, pupi[1] % 256, pupi[2] \div 256, pupi[2] % 256,
                  32, 56, 25, 34, 0, 33, 133>>
        crc  == Crc14B(body, 12)
    IN  body \o <<crc % 256, crc \div 256>>

\* C18: on receiving a 5-byte frame starting 0x05 while Idle, the emulator
\* transmits the pre-encoded ATQB before consuming any further reader command
\* and its state becomes Work; with a nonzero pupi the transmitted ATQB carries
\* the 4 pupi bytes most-significant first in bytes 1..4 (DE AD BE EF for
\* 0xDEADBEEF) and a CRC-14B recomputed over bytes 0..11, and with pupi = 0 it
\* is the default template.
C18_Select ==
    hist.cardSTATE = SIM_IDLE /\ SimReceived(5, 5) =>
        LET atqb == IF sim.pupi = <<0, 0>>
                    THEN <<80, 130, 13, 225, 116, 32, 56, 25, 34, 0, 33, 133, 94, 215>>
                    ELSE AtqbWithPupi(sim.pupi)
        IN  /\ pc = "sim"
            /\ sim.cmdsReceived = hist.cmdsReceived + 1
            /\ sim.cardSTATE = SIM_WORK
            /\ lastTx = <<Encoded(atqb)>>
            /\ sim.pupi = <<57005, 48879>> => SubSeq(atqb, 2, 5) = <<222, 173, 190, 239>>
            /\ check_crc(atqb, 14)

\* the emulator started with pupi 0xDEADBEEF has gone back to Idle on an
\* unknown command and has now answered a REQB with its ATQB
C18_Witness ==
    /\ hist.cardSTATE = SIM_IDLE
    /\ hist.cmdsReceived = 2
    /\ lastCall = [op |-> "command", frame |-> <<5, 0, 0, 113, 255>>]
    /\ sim.pupi = <<57005, 48879>>
    /\ sim.respATQB[2] = 222 /\ sim.respATQB[5] = 239
    /\ lastTx = <<sim.encodedATQB>>
    /\ sim.cardSTATE = SIM_WORK

\* C19 as stated: whenever the emulator is in Work and receives an 11-byte
\* frame starting 0x1D, it enters Acknowledge and then, as an internal step
\* that needs no further reader command, transmits the OK response 00 78 F0
\* and moves to Idle.
C19_AttribAnswered ==
    hist.cardSTATE = SIM_WORK /\ SimReceived(11, 29) =>
        /\ lastTx = <<Encoded(<<0, 120, 240>>)>>
        /\ sim.cardSTATE = SIM_IDLE

\* C20 as stated: in every state, a received command that is not a recognised
\* REQB/WUPB, HLT or ATTRIB (including one whose CRC fails) is dropped
\* silently: nothing is transmitted, the simulation loop keeps running, and
\* the emulator ends in Idle.
C20_DroppedSilentlyAsStated ==
    /\ lastCall.op = "command"
    /\ ~SimReceived(5, 5) /\ ~SimReceived(7, 80) /\ ~SimReceived(11, 29)
    => /\ lastTx = <<>>
       /\ pc = "sim"
       /\ sim.cardSTATE = SIM_IDLE

\* C20: a received command that is not a recognised REQB/WUPB, HLT or ATTRIB
\* (including one whose CRC fails) never stops the simulation loop and leaves
\* the emulator in Idle, or in Halted if it was Halted; nothing is transmitted,
\* except that a command received while the answer to an ATTRIB is still
\* pending (Acknowledge) makes the emulator transmit that OK response.
C20_DroppedSilently ==
    /\ lastCall.op = "command"
    /\ ~SimReceived(5, 5) /\ ~SimReceived(7, 80) /\ ~SimReceived(11, 29)
    => /\ pc = "sim"
       /\ hist.cardSTATE \in {SIM_IDLE, SIM_HALTED, SIM_WORK, SIM_ACKNOWLEDGE}
       /\ sim.cardSTATE = IF hist.cardSTATE = SIM_HALTED THEN SIM_HALTED ELSE SIM_IDLE
       /\ lastTx = IF hist.cardSTATE = SIM_ACKNOWLEDGE
                   THEN <<Encoded(<<0, 120, 240>>)>>
                   ELSE <<>>

\* an I-block whose CRC fails, received in Work, has been dropped
C20_Witness ==
    /\ hist.cardSTATE = SIM_WORK
    /\ lastCall = [op |-> "command", frame |-> <<10, 0, 0, 0>>]
    /\ ~check_crc(sim.receivedCmd, sim.len)
    /\ lastTx = <<>>
    /\ pc = "sim"
    /\ sim.cardSTATE = SIM_IDLE

(***************************************************************************)
(* SpecSniff: SniffIso14443b.  One DMA sample (ci, cq) is taken per turn   *)
(* of the loop: bit 0 of ci and of cq are two envelope samples for the     *)
(* reader-side UART, ci >> 1 and cq >> 1 are the IQ sample for the tag     *)
(* demodulator.  The air carries one piece of SniffPieces after the other, *)
(* in any order: a sound frame of the reader and of the tag, a reader      *)
(* frame with a SOF too short, a tag's SOF with nothing after it, a tag's  *)
(* TR1 alone, and a reader frame sent over the SOF of a tag.               *)
(* The loop is followed until MaxTrace frames are in the trace.            *)
(***************************************************************************)
MaxTrace == 4

\* the DMA sample with envelope bit b for the UART and IQ sample iq
Smp(b, iq) == <<2 * iq[1] + b, 2 * iq[2] + b>>

\* a 10-bit character (start bit 0, d least-significant bit first, stop bit)
\* of the reader, two turns per bit, and of the tag, two samples per bit
ReaderChar(d, stop) ==
    LET t == <<IQ0>> \o CharTail(IQ0, d, stop)
    IN  [i \in 1..Len(t) |-> Smp(IF t[i] = IQ1 THEN 1 ELSE 0, IQSilent)]

TagChar(d, stop) ==
    LET t == <<IQ0>> \o CharTail(IQ0, d, stop)
    IN  [i \in 1..Len(t) |-> Smp(1, t[i])]

\* the reader's carrier low for n ETU, high for n ETU
ReaderLow(n) == Rep(Smp(0, IQSilent), 2 * n)
ReaderHigh(n) == Rep(Smp(1, IQSilent), 2 * n)

\* the tag's subcarrier at logic 1, at logic 0, for n samples
TagHigh(n) == Rep(Smp(1, IQ1), n)
TagLow(n) == Rep(Smp(1, IQ0), n)

\* a reader frame: SOF with the carrier low for sof ETU, the characters, EOF
ReaderFrame(sof, chars) ==
    ReaderLow(sof) \o ReaderHigh(2) \o chars \o ReaderChar(0, 0) \o ReaderHigh(2)

\* a tag frame: TR1, SOF with logic 0 for sof samples, the characters, EOF
TagFrame(sof, chars) ==
    TagHigh(10) \o TagLow(sof) \o TagHigh(4) \o chars \o TagChar(0, 0) \o TagHigh(4)

SniffPieces ==
    {ReaderFrame(10, ReaderChar(5, 1)),
     ReaderFrame(9, ReaderChar(5, 1)),
     TagFrame(20, TagChar(80, 1)),
     TagHigh(10) \o TagLow(20) \o TagHigh(14),
     TagHigh(10),
     ReaderLow(10) \o TagLow(17) \o ReaderChar(5, 1) \o ReaderChar(0, 0)}

\* the locals of SniffIso14443b with the two decoders; uartCalls, demodCalls
\* and demodSaw record the decoder calls of the turn in progress
SniffLocals(U, D, s) ==
    [Uart |-> U, Demod |-> D,
     tag_is_active |-> s.tag_is_active,
     reader_is_active |-> s.reader_is_active,
     expect_tag_answer |-> s.expect_tag_answer,
     trace |-> s.trace,
     uartCalls |-> 0, demodCalls |-> 0, decoded |-> <<>>,
     demodSaw |-> [reader_is_active |-> FALSE, expect_tag_answer |-> TRUE]]

\* LogTrace(frame, len, ..., readerToTag)
LogTrace(trace, frame, len, readerToTag) ==
    Append(trace, [reader |-> readerToTag, frame |-> SubSeq(frame, 1, len)])

\* one envelope sample handed to the UART, and what follows a decoded frame
SniffReaderSample(S, bit) ==
    LET r  == Handle14443bSampleFromReader(S.Uart, bit)
        S1 == [S EXCEPT !.Uart = r.u, !.uartCalls = @ + 1]
    IN  IF r.ret
        THEN [S1 EXCEPT !.trace = IF r.u.byteCnt > 0
                                  THEN LogTrace(@, r.u.output, r.u.byteCnt, TRUE)
                                  ELSE @,
                        !.decoded = Append(@, "reader"),
                        !.Uart = Uart14bReset(r.u),
                        !.Demod = Demod14bReset(S.Demod),
                        !.reader_is_active = FALSE,
                        !.expect_tag_answer = TRUE]
        ELSE S1

SniffReader_AlsoWhileTagActive(S, ci, cq) ==
    LET S1 == SniffReaderSample(S, ci % 2)
        S2 == SniffReaderSample(S1, cq % 2)
    IN  [S2 EXCEPT !.reader_is_active =
                       S2.Uart.state > STATE_14B_GOT_FALLING_EDGE_OF_SOF]

\* no need to try decoding reader data if the tag is sending
SniffReader(S, ci, cq) ==
    IF S.tag_is_active = FALSE
    THEN LET S1 == SniffReaderSample(S, ci % 2)
             S2 == SniffReaderSample(S1, cq % 2)
         IN  [S2 EXCEPT !.reader_is_active =
                            S2.Uart.state > STATE_14B_GOT_FALLING_EDGE_OF_SOF]
    ELSE S

SniffTag_ExpectKept(S, ci, cq) ==
    IF S.reader_is_active = FALSE /\ S.expect_tag_answer
    THEN LET r  == Handle14443bSamplesFromTag(S.Demod, ci \div 2, cq \div 2)
             S1 == [S EXCEPT !.Demod = r.d, !.demodCalls = @ + 1,
                             !.demodSaw = [reader_is_active |-> S.reader_is_active,
                                           expect_tag_answer |-> S.expect_tag_answer]]
         IN  IF r.ret
             THEN [S1 EXCEPT !.trace = LogTrace(@, r.d.output, r.d.len, FALSE),
                             !.decoded = Append(@, "tag"),
                             !.Uart = Uart14bReset(S.Uart),
                             !.Demod = Demod14bReset(r.d),
                             !.tag_is_active = FALSE]
             ELSE [S1 EXCEPT !.tag_is_active =
                                 r.d.state > DEMOD_GOT_FALLING_EDGE_OF_SOF]
    ELSE S

\* no need to try decoding tag data if the reader is sending
SniffTag(S, ci, cq) ==
    IF S.reader_is_active = FALSE /\ S.expect_tag_answer
    THEN LET r  == Handle14443bSamplesFromTag(S.Demod, ci \div 2, cq \div 2)
             S1 == [S EXCEPT !.Demod = r.d, !.demodCalls = @ + 1,
                             !.demodSaw = [reader_is_active |-> S.reader_is_active,
                                           expect_tag_answer |-> S.expect_tag_answer]]
         IN  IF r.ret
             THEN [S1 EXCEPT !.trace = LogTrace(@, r.d.output, r.d.len, FALSE),
                             !.decoded = Append(@, "tag"),
                             !.Uart = Uart14bReset(S.Uart),
                             !.Demod = Demod14bReset(r.d),
                             !.expect_tag_answer = FALSE,
                             !.tag_is_active = FALSE]
             ELSE [S1 EXCEPT !.tag_is_active =
                                 r.d.state > DEMOD_GOT_FALLING_EDGE_OF_SOF]
    ELSE S

InitSniff ==
    /\ pc = "sniff"
    /\ IdleCodec
    /\ Uart = Uart14bInit
    /\ Demod = Demod14bInit(MAX_FRAME_SIZE)
    /\ ret = FALSE
    /\ stored = 0
    /\ tail = <<>>
    /\ pcb_blocknum = 0
    /\ iso14b_timeout = FWT_TIMEOUT_14B
    /\ card = NoCard
    /\ lastTx = <<>>
    /\ lastRet = 0
    /\ lastCall = [op |-> "none"]
    /\ hist = [tag_is_active |-> FALSE, reader_is_active |-> FALSE,
               expect_tag_answer |-> FALSE]
    /\ ncalls = 0
    /\ tag = NoTag
    /\ sim = NoSim
    /\ reader = NoReader
    /\ sniff = [running |-> TRUE, tag_is_active |-> FALSE,
                reader_is_active |-> FALSE, expect_tag_answer |-> FALSE,
                trace |-> <<>>, uartCalls |-> 0, demodCalls |-> 0,
                decoded |-> <<>>,
                demodSaw |-> [reader_is_active |-> FALSE,
                              expect_tag_answer |-> TRUE]]
    /\ hw = NoHw

\* one turn of the loop on the sample smp; hist keeps the three flags as
\* they were when the turn began
SniffTurned(smp) ==
    LET S0 == SniffLocals(Uart, Demod, sniff)
        S1 == SniffReader(S0, smp[1], smp[2])
        S2 == SniffTag(S1, smp[1], smp[2])
    IN  /\ Uart' = S2.Uart
        /\ Demod' = S2.Demod
        /\ hist' = [tag_is_active |-> sniff.tag_is_active,
                    reader_is_active |-> sniff.reader_is_active,
                    expect_tag_answer |-> sniff.expect_tag_answer]
        /\ sniff' = [running |-> TRUE,
                     tag_is_active |-> S2.tag_is_active,
                     reader_is_active |-> S2.reader_is_active,
                     expect_tag_answer |-> S2.expect_tag_answer,
                     trace |-> S2.trace,
                     uartCalls |-> S2.uartCalls,
                     demodCalls |-> S2.demodCalls,
                     decoded |-> S2.decoded,
                     demodSaw |-> S2.demodSaw]
        /\ lastCall' = [op |-> "sample", ci |-> smp[1], cq |-> smp[2]]
        /\ UNCHANGED <<pc, M, ToSend, pos, ret, phase, stored, pcb_blocknum,
                       iso14b_timeout, card, lastTx, lastRet, ncalls, tag, sim,
                       reader, hw>>

\* a turn on the first sample of the next piece
SniffTurn ==
    /\ pc = "sniff"
    /\ Len(sniff.trace) < MaxTrace
    /\ tail = <<>>
    /\ \E piece \in SniffPieces :
         /\ SniffTurned(Head(piece))
         /\ tail' = Tail(piece)

\* a turn on the next sample of the piece in progress
SniffPieceTurn ==
    /\ pc = "sniff"
    /\ Len(sniff.trace) < MaxTrace
    /\ tail # <<>>
    /\ SniffTurned(Head(tail))
    /\ tail' = Tail(tail)

\* the button is found pressed when the DMA buffer wraps: the loop ends
SniffStop ==
    /\ pc = "sniff"
    /\ pc' = "stopped"
    /\ sniff' = [sniff EXCEPT !.running = FALSE]
    /\ UNCHANGED <<M, ToSend, pos, Uart, Demod, ret, phase, stored, tail,
                   pcb_blocknum, iso14b_timeout, card, lastTx, lastRet, lastCall,
                   hist, ncalls, tag, sim, reader, hw>>

NextSniff == SniffTurn \/ SniffPieceTurn \/ SniffStop

SpecSniff == InitSniff /\ [][NextSniff]_vars

\* C21: after every turn of the sniff loop the UART and the demodulator are
\* not both past their GotSofFallingEdge state; the UART was called in the
\* turn only if tag_is_active was false when the turn began, and the
\* demodulator only when reader_is_active was false and expect_tag_answer
\* true at its call.
C21_MutualExclusion ==
    /\ ~(Uart.state > STATE_14B_GOT_FALLING_EDGE_OF_SOF
         /\ Demod.state > DEMOD_GOT_FALLING_EDGE_OF_SOF)
    /\ sniff.uartCalls > 0 => ~hist.tag_is_active
    /\ sniff.demodCalls > 0 =>
           ~sniff.demodSaw.reader_is_active /\ sniff.demodSaw.expect_tag_answer

\* the reader is in the middle of a frame while the demodulator, not called
\* in the turn, rests where the frame caught it, in the SOF of a tag
C21_Witness ==
    /\ pc = "sniff"
    /\ Uart.state = STATE_14B_RECEIVING_DATA
    /\ Demod.state = DEMOD_GOT_FALLING_EDGE_OF_SOF
    /\ sniff.uartCalls = 2
    /\ sniff.demodCalls = 0
    /\ sniff.expect_tag_answer
    /\ sniff.reader_is_active

\* the frames decoded in the last turn include one of the reader, of the tag
SniffDecoded(who) == \E i \in 1..Len(sniff.decoded) : sniff.decoded[i] = who

\* C22: expect_tag_answer is false when the sniff loop begins; a turn makes
\* it true exactly when it decodes a reader frame and false exactly when it
\* decodes a tag frame; after a decoded tag frame both decoders are as
\* Uart14bReset and Demod14bReset leave them, after a decoded reader frame
\* they are at most one turn away from that; the first frame of the trace is
\* a reader frame and no two tag frames follow each other in the trace.
C22_FrameOrdering ==
    /\ lastCall.op = "none" => ~sniff.expect_tag_answer
    /\ lastCall.op = "sample" =>
         /\ ~hist.expect_tag_answer =>
                (sniff.expect_tag_answer <=> SniffDecoded("reader"))
         /\ hist.expect_tag_answer =>
                (~sniff.expect_tag_answer <=> SniffDecoded("tag"))
         /\ SniffDecoded("tag") =>
                /\ Uart = Uart14bReset(Uart)
                /\ Demod = Demod14bReset(Demod)
         /\ SniffDecoded("reader") =>
                /\ Uart.byteCnt = 0
                /\ Uart.state <= STATE_14B_GOT_FALLING_EDGE_OF_SOF
                /\ Demod.len = 0
                /\ Demod.state <= DEMOD_PHASE_REF_TRAINING
    /\ sniff.trace # <<>> => sniff.trace[1].reader
    /\ \A i \in 1..(Len(sniff.trace) - 1) :
           sniff.trace[i].reader \/ sniff.trace[i + 1].reader

\* the second tag frame has just been logged, each after a reader frame
C22_Witness ==
    /\ Len(sniff.trace) = 4
    /\ sniff.trace[1] = [reader |-> TRUE, frame |-> <<5>>]
    /\ sniff.trace[2] = [reader |-> FALSE, frame |-> <<80>>]
    /\ sniff.trace[3].reader
    /\ sniff.trace[4] = [reader |-> FALSE, frame |-> <<>>]
    /\ sniff.decoded = <<"tag">>
    /\ hist.expect_tag_answer
    /\ ~sniff.expect_tag_answer

(***************************************************************************)
(* SpecWait: the three mode loops pass by pass, with the hardware they     *)
(* poll.  hw.mode is the mode running:                                     *)
(*   "receive"  Get14443bAnswerFromTag, from its wait for TXEMPTY on;      *)
(*   "sniff"    the loop of SniffIso14443b;                                *)
(*   "sim"      the loop of SimulateIso14443bTag with the loops of         *)
(*              GetIso14443bCommandFromReader and TransmitFor14443b_AsTag. *)
(* hw.at is the loop the program is in.  hw.ready is the status the loop   *)
(* polls (TXEMPTY, a sample behind the DMA pointer, the field voltage,     *)
(* RXRDY, TXRDY), hw.endrx the ENDRX status, hw.button the button and      *)
(* hw.data_available the host's signal: they change at any time, the       *)
(* button and the host's signal only from false to true.  hw.pass says of  *)
(* the last pass which loop made it and whether it called WDT_HIT and      *)
(* BUTTON_PRESS.  The DMA buffer holds DmaBufSize samples.                 *)
(***************************************************************************)
DmaBufSize == 4

\* the replies a tag may give in mode "receive", the commands a reader may
\* send in mode "sim", the samples on the air in mode "sniff"
WaitReplies == {NoReply, Reply(<<80>>), Reply(<<80, 0>>)}
HLTB == <<80, 130, 13, 225, 116, 144, 148>>
WaitCommands == {WUPB, HLTB}
WaitSniffed == ReaderFrame(10, ReaderChar(5, 1)) \o TagFrame(20, TagChar(80, 1))

NoPass == [loop |-> "none", wdt |-> FALSE, button |-> FALSE]
PassOf(loop, wdt, button) == [loop |-> loop, wdt |-> wdt, button |-> button]

InitWait ==
    /\ pc = "wait"
    /\ M = <<>>
    /\ pos = 0
    /\ phase = <<0, 0>>
    /\ Uart = Uart14bInit
    /\ ret = FALSE
    /\ stored = 0
    /\ pcb_blocknum = 0
    /\ iso14b_timeout = FWT_TIMEOUT_14B
    /\ card = NoCard
    /\ lastTx = <<>>
    /\ lastRet = 0
    /\ lastCall = [op |-> "none"]
    /\ hist = NoHist
    /\ ncalls = 0
    /\ \E mode \in {"receive", "sniff", "sim"}, ready \in BOOLEAN :
         /\ hw = [waiting |-> TRUE, mode |-> mode,
                  at |-> CASE mode = "receive" -> "txempty"
                           [] mode = "sniff" -> "dma"
                           [] mode = "sim" -> "sim",
                  ready |-> ready, endrx |-> FALSE, button |-> FALSE,
                  data_available |-> FALSE, upTo |-> 0, i |-> 0, len |-> 0,
                  after |-> SIM_NOFIELD, timeout |-> 12, pass |-> NoPass,
                  cancelled |-> FALSE, logged |-> <<>>]
         /\ IF mode = "receive"
            THEN /\ \E reply \in WaitReplies :
                      /\ tag = [present |-> TRUE, reply |-> reply]
                      /\ ToSend = CodeIso14443bAsTag(reply.bytes)
                 /\ Demod = Demod14bInit(MaxStore)
            ELSE /\ tag = NoTag
                 /\ ToSend = tosend_reset
                 /\ Demod = Demod14bInit(MAX_FRAME_SIZE)
         /\ tail = IF mode = "sniff" THEN WaitSniffed ELSE <<>>
         /\ sniff = IF mode = "sniff"
                    THEN [running |-> TRUE, tag_is_active |-> FALSE,
                          reader_is_active |-> FALSE, expect_tag_answer |-> FALSE,
                          trace |-> <<>>, uartCalls |-> 0, demodCalls |-> 0,
                          decoded |-> <<>>,
                          demodSaw |-> [reader_is_active |-> FALSE,
                                        expect_tag_answer |-> TRUE]]
                    ELSE NoSniff
         /\ IF mode = "sim"
            THEN /\ sim = [running      |-> TRUE,
                           pupi         |-> <<0, 0>>,
                           respATQB     |-> RespATQB(<<0, 0>>),
                           encodedATQB  |-> Encoded(RespATQB(<<0, 0>>)),
                           encodedOK    |-> Encoded(respOK),
                           cardSTATE    |-> SIM_NOFIELD,
                           cmdsReceived |-> 0,
                           receivedCmd  |-> <<>>,
                           len          |-> 0]
                 /\ reader = [c \in WaitCommands |-> CodeIso14443bAsReader(c)]
            ELSE /\ sim = NoSim
                 /\ reader = NoReader

\* upTo++ and the wrap of the circular buffer: [upTo, wrapped]
DmaAdvance(upTo) ==
    IF upTo + 1 >= DmaBufSize THEN [upTo |-> 0, wrapped |-> TRUE]
    ELSE [upTo |-> upTo + 1, wrapped |-> FALSE]

\* Get14443bAnswerFromTag: while (!(SSC_SR & TXEMPTY)) {}, then the DMA set-up
WaitTxEmpty ==
    /\ hw.mode = "receive" /\ hw.at = "txempty"
    /\ hw' = [hw EXCEPT !.pass = PassOf("txempty", FALSE, FALSE),
                        !.at = IF hw.ready THEN "dma" ELSE @]
    /\ UNCHANGED <<pc, M, ToSend, pos, Uart, Demod, ret, phase, stored, tail,
                   pcb_blocknum, iso14b_timeout, card, lastTx, lastRet, lastCall,
                   hist, ncalls, tag, sim, reader, sniff>>

\* what Get14443bAnswerFromTag does after its loop: [ret, logged]
AnswerReturn(r, D, cancelled) ==
    [ret    |-> IF r < 0 THEN r ELSE D.len,
     logged |-> IF r >= 0 /\ D.len > 0 THEN <<SubSeq(D.output, 1, D.len)>> ELSE <<>>]

\* one pass of the for (;;) of Get14443bAnswerFromTag
ReceivePass ==
    /\ hw.mode = "receive" /\ hw.at = "dma"
    /\ IF ~hw.ready
       THEN \* behindBy == 0: continue
            /\ hw' = [hw EXCEPT !.pass = PassOf("dma", FALSE, FALSE)]
            /\ UNCHANGED <<pos, Demod, lastRet>>
       ELSE LET adv     == DmaAdvance(hw.upTo)
                checked == adv.wrapped /\ hw.endrx
                iq      == AnswerSample(tag.reply, ToSend, pos)
                st      == AnswerStep([d |-> Demod, samples |-> pos,
                                       done |-> FALSE, ret |-> 0], iq, hw.timeout)
            IN  IF checked /\ hw.button
                THEN \* break before the sample is handed to the demodulator
                     LET out == AnswerReturn(0, Demod, TRUE)
                     IN  /\ pos' = pos + 1
                         /\ Demod' = Demod
                         /\ lastRet' = out.ret
                         /\ hw' = [hw EXCEPT !.pass = PassOf("dma", TRUE, TRUE),
                                             !.upTo = adv.upTo, !.at = "done",
                                             !.cancelled = TRUE,
                                             !.logged = out.logged]
                ELSE LET out == AnswerReturn(st.ret, st.d, FALSE)
                     IN  /\ pos' = st.samples
                         /\ Demod' = st.d
                         /\ lastRet' = IF st.done THEN out.ret ELSE lastRet
                         /\ hw' = [hw EXCEPT !.pass = PassOf("dma", checked, checked),
                                             !.upTo = adv.upTo,
                                             !.at = IF st.done THEN "done" ELSE @,
                                             !.logged = IF st.done THEN out.logged
                                                        ELSE @]
    /\ UNCHANGED <<pc, M, ToSend, Uart, ret, phase, stored, tail, pcb_blocknum,
                   iso14b_timeout, card, lastTx, lastCall, hist, ncalls, tag, sim,
                   reader, sniff>>

\* one pass of the for (;;) of SniffIso14443b
SniffPass ==
    /\ hw.mode = "sniff" /\ hw.at = "dma"
    /\ IF ~hw.ready
       THEN \* behind_by < 1: continue
            /\ hw' = [hw EXCEPT !.pass = PassOf("dma", FALSE, FALSE)]
            /\ UNCHANGED <<pos, Uart, Demod, tail, sniff>>
       ELSE LET adv     == DmaAdvance(hw.upTo)
                checked == adv.wrapped /\ hw.endrx
                smp     == IF tail # <<>> THEN Head(tail) ELSE Smp(1, IQSilent)
            IN  \E S0 \in {SniffLocals(Uart, Demod, sniff)} :
                \E S1 \in {SniffReader(S0, smp[1], smp[2])} :
                \E S2 \in {SniffTag(S1, smp[1], smp[2])} :
                /\ pos' = IF tail # <<>> THEN pos + 1 ELSE pos
                /\ tail' = IF tail # <<>> THEN Tail(tail) ELSE tail
                /\ IF checked /\ hw.button
                   THEN /\ hw' = [hw EXCEPT !.pass = PassOf("dma", TRUE, TRUE),
                                            !.upTo = adv.upTo, !.at = "done",
                                            !.cancelled = TRUE]
                        /\ UNCHANGED <<Uart, Demod, sniff>>
                   ELSE /\ hw' = [hw EXCEPT !.pass = PassOf("dma", checked, checked),
                                            !.upTo = adv.upTo]
                        /\ Uart' = S2.Uart
                        /\ Demod' = S2.Demod
                        /\ sniff' = [running |-> TRUE,
                                     tag_is_active |-> S2.tag_is_active,
                                     reader_is_active |-> S2.reader_is_active,
                                     expect_tag_answer |-> S2.expect_tag_answer,
                                     trace |-> S2.trace,
                                     uartCalls |-> S2.uartCalls,
                                     demodCalls |-> S2.demodCalls,
                                     decoded |-> S2.decoded,
                                     demodSaw |-> S2.demodSaw]
    /\ UNCHANGED <<pc, M, ToSend, ret, phase, stored, pcb_blocknum, iso14b_timeout,
                   card, lastTx, lastRet, lastCall, hist, ncalls, tag, sim, reader>>

\* one pass of the simulation loop of SimulateIso14443bTag, up to its call of
\* GetIso14443bCommandFromReader
SimPass ==
    /\ hw.mode = "sim" /\ hw.at = "sim"
    /\ IF hw.button
       THEN /\ hw' = [hw EXCEPT !.pass = PassOf("sim", FALSE, TRUE), !.at = "done",
                                !.cancelled = TRUE]
            /\ UNCHANGED <<sim, Uart>>
       ELSE IF hw.data_available
       THEN /\ hw' = [hw EXCEPT !.pass = PassOf("sim", TRUE, TRUE), !.at = "done"]
            /\ UNCHANGED <<sim, Uart>>
       ELSE IF sim.cardSTATE = SIM_NOFIELD /\ ~hw.ready
       THEN \* no field: continue
            /\ hw' = [hw EXCEPT !.pass = PassOf("sim", TRUE, TRUE)]
            /\ UNCHANGED <<sim, Uart>>
       ELSE /\ hw' = [hw EXCEPT !.pass = PassOf("sim", TRUE, TRUE), !.at = "getcmd"]
            /\ sim' = [sim EXCEPT !.cardSTATE = IF @ = SIM_NOFIELD THEN SIM_IDLE ELSE @]
            /\ Uart' = Uart14bInit
    /\ UNCHANGED <<pc, M, ToSend, pos, Demod, ret, phase, stored, tail, pcb_blocknum,
                   iso14b_timeout, card, lastTx, lastRet, lastCall, hist, ncalls, tag,
                   reader, sniff>>

\* the eight envelope samples of the byte read from SSC_RHR at sample pos of
\* the command on the air, first sample in bit 7; the idle carrier reads 1
AirBits(cmd, ts, at) ==
    [k \in 1..8 |-> IF cmd # <<>> /\ at + k - 1 < 4 * NumStuffbits(ts)
                    THEN StuffbitAt(ts, (at + k - 1) \div 4) ELSE 1]

RECURSIVE UartFeed(_, _)
\* for (mask = 0x80; mask != 0; mask >>= 1) Handle14443bSampleFromReader(b & mask)
UartFeed(st, bits) ==
    IF st.ret \/ bits = <<>> THEN st
    ELSE CHOOSE end \in {UartFeed(nxt, Tail(bits)) :
                            nxt \in {Handle14443bSampleFromReader(st.u, Head(bits))}} :
             TRUE

\* one pass of the while of GetIso14443bCommandFromReader and, on a command,
\* what SimulateIso14443bTag does with it up to the transmission of its answer
GetCommandPass ==
    /\ hw.mode = "sim" /\ hw.at = "getcmd"
    /\ IF hw.button
       THEN \* return false: "button pressed"
            /\ hw' = [hw EXCEPT !.pass = PassOf("getcmd", FALSE, TRUE),
                                !.at = "done", !.cancelled = TRUE]
            /\ UNCHANGED <<M, pos, Uart, sim, lastTx>>
       ELSE IF ~hw.ready
       THEN /\ hw' = [hw EXCEPT !.pass = PassOf("getcmd", TRUE, TRUE)]
            /\ UNCHANGED <<M, pos, Uart, sim, lastTx>>
       ELSE \E ts \in {IF M # <<>> THEN reader[M] ELSE tosend_reset} :
            \E st \in {UartFeed([u |-> Uart, ret |-> FALSE], AirBits(M, ts, pos))} :
            LET over == M = <<>> \/ st.ret \/ pos + 8 >= 4 * NumStuffbits(ts)
                rcv  == SubSeq(st.u.output, 1, st.u.byteCnt)
                wkn  == SimWake(sim.cardSTATE, rcv, st.u.byteCnt)
                out  == SimSwitch(sim, wkn, rcv, st.u.byteCnt)
            IN  /\ Uart' = st.u
                /\ M' = IF over THEN <<>> ELSE M
                /\ pos' = IF over THEN 0 ELSE pos + 8
                /\ IF ~st.ret
                   THEN /\ hw' = [hw EXCEPT !.pass = PassOf("getcmd", TRUE, TRUE)]
                        /\ UNCHANGED <<sim, lastTx>>
                   ELSE IF out.tx # <<>>
                   THEN /\ hw' = [hw EXCEPT !.pass = PassOf("getcmd", TRUE, TRUE),
                                            !.at = "transmit", !.i = 0,
                                            !.len = Len(out.tx[1]),
                                            !.after = out.cardSTATE]
                        /\ sim' = [sim EXCEPT !.cardSTATE = wkn,
                                              !.receivedCmd = rcv,
                                              !.len = st.u.byteCnt]
                        /\ lastTx' = out.tx
                   ELSE /\ hw' = [hw EXCEPT !.pass = PassOf("getcmd", TRUE, TRUE),
                                            !.at = "sim"]
                        /\ sim' = [sim EXCEPT !.cardSTATE = out.cardSTATE,
                                              !.cmdsReceived = (@ + 1) % 65536,
                                              !.receivedCmd = rcv,
                                              !.len = st.u.byteCnt]
                        /\ lastTx' = <<>>
    /\ UNCHANGED <<pc, ToSend, Demod, ret, phase, stored, tail, pcb_blocknum,
                   iso14b_timeout, card, lastRet, lastCall, hist, ncalls, tag,
                   reader, sniff>>

\* one pass of the for of TransmitFor14443b_AsTag and, after the last byte,
\* the rest of the turn of the simulation loop
TransmitPass ==
    /\ hw.mode = "sim" /\ hw.at = "transmit"
    /\ IF ~hw.ready
       THEN /\ hw' = [hw EXCEPT !.pass = PassOf("transmit", FALSE, FALSE)]
            /\ UNCHANGED sim
       ELSE IF hw.i + 1 < hw.len
       THEN /\ hw' = [hw EXCEPT !.pass = PassOf("transmit", FALSE, FALSE),
                                !.i = @ + 1]
            /\ UNCHANGED sim
       ELSE /\ hw' = [hw EXCEPT !.pass = PassOf("transmit", FALSE, FALSE),
                                !.i = @ + 1, !.at = "sim"]
            /\ sim' = [sim EXCEPT !.cardSTATE = hw.after,
                                  !.cmdsReceived = (@ + 1) % 65536]
    /\ UNCHANGED <<pc, M, ToSend, pos, Uart, Demod, ret, phase, stored, tail,
                   pcb_blocknum, iso14b_timeout, card, lastTx, lastRet, lastCall,
                   hist, ncalls, tag, reader, sniff>>

\* the program: whichever loop it is in makes its next pass
Pass ==
    WaitTxEmpty \/ ReceivePass \/ SniffPass \/ SimPass \/ GetCommandPass
        \/ TransmitPass

waitEnv == <<pc, ToSend, Uart, Demod, ret, phase, stored, tail, pcb_blocknum,
             iso14b_timeout, card, lastTx, lastRet, lastCall, hist, ncalls, tag,
             sim, reader, sniff>>

\* the status the loop polls changes
HwReady ==
    /\ hw.waiting /\ hw.at # "done"
    /\ hw' = [hw EXCEPT !.ready = ~@]
    /\ UNCHANGED <<M, pos>>
    /\ UNCHANGED waitEnv

\* ENDRX changes
HwEndrx ==
    /\ hw.waiting /\ hw.at = "dma"
    /\ hw' = [hw EXCEPT !.endrx = ~@]
    /\ UNCHANGED <<M, pos>>
    /\ UNCHANGED waitEnv

\* the button is pressed, and stays pressed
Press ==
    /\ hw.waiting /\ hw.at # "done" /\ ~hw.button
    /\ hw' = [hw EXCEPT !.button = TRUE]
    /\ UNCHANGED <<M, pos>>
    /\ UNCHANGED waitEnv

\* the host has data, from now on
HostData ==
    /\ hw.waiting /\ hw.mode = "sim" /\ hw.at # "done" /\ ~hw.data_available
    /\ hw' = [hw EXCEPT !.data_available = TRUE]
    /\ UNCHANGED <<M, pos>>
    /\ UNCHANGED waitEnv

\* the reader begins a command
ReaderSends ==
    /\ hw.waiting /\ hw.mode = "sim" /\ hw.at = "getcmd"
    /\ M = <<>>
    /\ sim.cmdsReceived < MaxCmds
    /\ M' \in WaitCommands
    /\ pos' = 0
    /\ UNCHANGED hw
    /\ UNCHANGED waitEnv

NextWait == Pass \/ HwReady \/ HwEndrx \/ Press \/ HostData \/ ReaderSends

SpecWait == InitWait /\ [][NextWait]_vars

\* the program keeps running: it is not kept for ever from a pass that would
\* change anything, however the hardware status flickers
SpecWaitLive == SpecWait /\ SF_vars(Pass)

\* C23: every pass of a wait loop (for a DMA sample, for TXEMPTY or TXRDY, for
\* a reader command) calls WDT_HIT and BUTTON_PRESS.
C23_EveryPassChecks ==
    hw.pass.loop \in {"txempty", "dma", "getcmd", "transmit"} =>
        hw.pass.wdt /\ hw.pass.button

\* C24: once the button is pressed (it stays pressed) the mode loop that is
\* running ends, whatever the hardware does.
C24_Cancellation == hw.button ~> hw.at = "done"

\* C25: once the host has data (and keeps having it) the tag emulation ends,
\* also when the reader sends nothing more.
C25_HostPreempts == (hw.mode = "sim" /\ hw.data_available) ~> hw.at = "done"

\* C26: Get14443bAnswerFromTag ended by the button while the demodulator is
\* within a frame (past the SOF) returns no positive length and logs nothing.
C26_PartialDiscarded ==
    (/\ hw.mode = "receive"
     /\ hw.at = "done"
     /\ hw.cancelled
     /\ Demod.state \in {DEMOD_AWAITING_START_BIT, DEMOD_RECEIVING_DATA})
        => lastRet <= 0 /\ hw.logged = <<>>

(***************************************************************************)
(* SpecChar: the demodulator has accepted a SOF, has stored no byte or one *)
(* byte, and has just detected a start bit; the remaining 19 samples of    *)
(* the character follow.  lastCall holds the character on the air: the     *)
(* start bit as its second half makes the demodulator read it, the data    *)
(* bits and the stop bit; hist.len is Demod.len before the character.      *)
(***************************************************************************)
\* a sample of logic 1 strong enough to outweigh the other half of its bit
IQ1Strong == <<20, 20>>

RECURSIVE DemodFeed(_, _)
\* the demodulator after the samples iqs, none of which ends the reception
DemodFeed(D, iqs) ==
    IF iqs = <<>> THEN D
    ELSE LET r == Handle14443bSamplesFromTag(D, Head(iqs)[1], Head(iqs)[2])
         IN  IF r.d.state \in 0..5 THEN DemodFeed(r.d, Tail(iqs)) ELSE r.d

\* TR1, the SOF and the first half of a start bit
SofSamples ==
    [i \in 1..10 |-> IQ1] \o [i \in 1..20 |-> IQ0] \o <<IQ1, IQ1, IQ0>>

\* the same, then the rest of the character 5A, a pause and the next start bit
SofAndOctetSamples ==
    SofSamples \o CharTail(IQ0, 90, 1) \o <<IQ1, IQ1, IQ0>>

\* the start bits that the second half of the start bit can make of it
StartHalves == <<IQ0, IQ1Strong>>

InitChar ==
    /\ pc = "run"
    /\ IdleCodec
    /\ Uart = Uart14bInit
    /\ Demod \in {DemodFeed(Demod14bInit(MAX_FRAME_SIZE), SofSamples),
                  DemodFeed(Demod14bInit(MAX_FRAME_SIZE), SofAndOctetSamples)}
    /\ ret = FALSE
    /\ stored = Demod.len
    /\ \E start \in 0..1, data \in 0..255, stop \in 0..1 :
         /\ tail = CharTail(StartHalves[start + 1], data, stop)
         /\ lastCall = [op |-> "char", start |-> start, data |-> data, stop |-> stop]
    /\ pcb_blocknum = 0
    /\ iso14b_timeout = FWT_TIMEOUT_14B
    /\ card = NoCard
    /\ lastTx = <<>>
    /\ lastRet = 0
    /\ hist = [len |-> Demod.len, output |-> Demod.output]
    /\ ncalls = 0
    /\ tag = NoTag
    /\ sim = NoSim
    /\ reader = NoReader
    /\ sniff = NoSniff
    /\ hw = NoHw

NextChar == CharSample

SpecChar == InitChar /\ [][NextChar]_vars

\* C14 as stated: after a valid SOF, a 10-bit character whose stop bit is 0
\* makes the reader demodulator go to Unsynced, return false and store no byte
\* (Demod.len unchanged), for every value of the 8 data bits and of the start
\* bit.
C14_StopBitZeroAsStated ==
    tail = <<>> /\ lastCall.stop = 0 =>
        /\ Demod.state = DEMOD_UNSYNCD
        /\ ~ret
        /\ Demod.len = hist.len /\ Demod.output = hist.output

\* C14: after a valid SOF, a 10-bit character whose stop bit is 0 makes the
\* reader demodulator go to Unsynced and store no byte (Demod.len unchanged),
\* for every value of the 8 data bits and of the start bit; the call returns
\* false unless all ten bits are 0, which is the EOF, where it returns true.
C14_StopBitZero ==
    tail = <<>> =>
        /\ Demod.shiftReg = lastCall.start + 2 * lastCall.data + 512 * lastCall.stop
        /\ lastCall.stop = 0 =>
            /\ Demod.state = DEMOD_UNSYNCD
            /\ ret <=> (lastCall.start = 0 /\ lastCall.data = 0)
            /\ Demod.len = hist.len /\ Demod.output = hist.output

\* the character with start bit 1, data A5 and stop bit 0, after the octet 5A
\* was stored, has sent the demodulator to Unsynced with that one octet
C14_Witness ==
    /\ tail = <<>>
    /\ lastCall = [op |-> "char", start |-> 1, data |-> 165, stop |-> 0]
    /\ hist.len = 1
    /\ Demod.state = DEMOD_UNSYNCD
    /\ ~ret
    /\ Demod.len = 1 /\ Demod.output = <<90>>

(***************************************************************************)
(* SpecAnswer: one call of Get14443bAnswerFromTag(response, max_len,       *)
(* timeout), one turn of its loop per step, on any stream of IQ samples.   *)
(* pos is the local `samples`, lastCall holds the arguments and lastRet    *)
(* the value returned, hist.peak the largest subcarrier amplitude among    *)
(* the samples so far.  As in SpecDemod, once a start bit is detected the   *)
(* rest of that character is one of CharTails.  The DMA set-up is taken to *)
(* succeed and the button is not pressed.                                  *)
(***************************************************************************)
\* longest sample stream explored
MaxSamples == 70

\* subcarrier amplitudes 6 and 8, neither above the detection threshold
IQLow == <<4, 4>>
IQAtThreshold == <<-6, 4>>

AnswerSamples == {IQ1, IQ0, IQSilent, IQLow, IQAtThreshold}

AnswerTimeouts == {1, 12}

\* sizes of the response buffer
AnswerMaxLens == {0, 1}

InitAnswer ==
    /\ pc = "receive"
    /\ IdleCodec
    /\ Uart = Uart14bInit
    /\ \E max_len \in AnswerMaxLens : Demod = Demod14bInit(max_len)
    /\ ret = FALSE
    /\ stored = 0
    /\ tail = <<>>
    /\ pcb_blocknum = 0
    /\ iso14b_timeout = FWT_TIMEOUT_14B
    /\ card = NoCard
    /\ lastTx = <<>>
    /\ lastRet = 0
    /\ \E timeout \in AnswerTimeouts :
         lastCall = [op |-> "answer", timeout |-> timeout]
    /\ hist = [peak |-> 0]
    /\ ncalls = 0
    /\ tag = NoTag
    /\ sim = NoSim
    /\ reader = NoReader
    /\ sniff = NoSniff
    /\ hw = NoHw

\* what one turn of for (;;) on the sample iq leaves behind
AnswerTurned(iq) ==
    LET st == AnswerStep([d |-> Demod, samples |-> pos, done |-> FALSE, ret |-> 0],
                         iq, lastCall.timeout)
    IN  /\ Demod' = st.d
        /\ pos' = st.samples
        /\ pc' = IF st.done THEN "returned" ELSE "receive"
        /\ ret' = (st.done /\ st.ret # -1)
        /\ lastRet' = IF ~st.done THEN lastRet
                      ELSE IF st.ret < 0 THEN st.ret ELSE st.d.len
        /\ hist' = [peak |-> MAX(hist.peak, AMPLITUDE(iq[1], iq[2]))]
        /\ UNCHANGED <<M, ToSend, Uart, phase, stored, pcb_blocknum, iso14b_timeout,
                       card, lastTx, lastCall, ncalls, tag, sim, reader, sniff, hw>>

\* a turn on a freely chosen sample
AnswerTurn ==
    /\ pc = "receive"
    /\ pos < MaxSamples
    /\ tail = <<>>
    /\ \E iq \in AnswerSamples :
         /\ AnswerTurned(iq)
         /\ IF Demod'.state = DEMOD_RECEIVING_DATA /\ Demod.state # DEMOD_RECEIVING_DATA
            THEN tail' \in CharTails
            ELSE tail' = <<>>

\* a turn on the next sample of the character in progress
AnswerCharTurn ==
    /\ pc = "receive"
    /\ pos < MaxSamples
    /\ tail # <<>>
    /\ AnswerTurned(Head(tail))
    /\ tail' = Tail(tail)

NextAnswer == AnswerTurn \/ AnswerCharTurn

SpecAnswer == InitAnswer /\ [][NextAnswer]_vars

\* C12 as stated: Get14443bAnswerFromTag returns -1 once more than `timeout`
\* samples have been consumed while the demodulator is in Unsynced or in
\* PhaseRefTraining, and never returns -1 for timeout in a later state.
C12_TimeoutAsStated ==
    LET early == Demod.state \in {DEMOD_UNSYNCD, DEMOD_PHASE_REF_TRAINING}
    IN  /\ pc = "receive" => ~(pos > lastCall.timeout /\ early)
        /\ pc = "returned" /\ lastRet = -1 => pos > lastCall.timeout /\ early

\* C12: Get14443bAnswerFromTag returns -1 at the first loop turn that ends,
\* without a completed frame, with more than `timeout` samples consumed and
\* the demodulator in Unsynced, and never returns -1 for timeout while the
\* demodulator is in PhaseRefTraining or a later state.
C12_Timeout ==
    /\ pc = "receive" => ~(pos > lastCall.timeout /\ Demod.state = DEMOD_UNSYNCD)
    /\ pc = "returned" /\ lastRet = -1 =>
        /\ pos > lastCall.timeout
        /\ Demod.state = DEMOD_UNSYNCD
        /\ ~ret

\* the call has returned -1 later than at sample timeout + 1: when the timeout
\* ran out the demodulator had left Unsynced, and it has fallen back since
C12_Witness ==
    /\ pc = "returned"
    /\ lastRet = -1
    /\ pos > lastCall.timeout + 8
    /\ hist.peak > SUBCARRIER_DETECT_THRESHOLD

\* C13: if every IQ sample has subcarrier amplitude at or below the threshold
\* 8 (for example 6), the reader demodulator stays in Unsynced for the whole
\* stream, never returns true and never writes output, and
\* Get14443bAnswerFromTag returns the timeout code -1 after `timeout` samples
\* (at the first sample beyond them).
C13_BelowThreshold ==
    hist.peak <= 8 =>
        /\ Demod.state = DEMOD_UNSYNCD
        /\ ~ret
        /\ Demod.len = 0 /\ Demod.output = <<>>
        /\ pc = "receive" <=> pos <= lastCall.timeout
        /\ pc = "returned" => lastRet = -1 /\ pos = lastCall.timeout + 1

\* thirteen samples, of amplitude 8 at most and one of them of amplitude 8,
\* have ended the call with timeout 12
C13_Witness ==
    /\ hist.peak = 8
    /\ pc = "returned"
    /\ lastRet = -1
    /\ lastCall.timeout = 12
    /\ pos = 13
    /\ Demod.state = DEMOD_UNSYNCD

\* C15: when a tag reply carrying more than max_len octets ends with an EOF,
\* Get14443bAnswerFromTag returns -2 (neither a length nor -1), and it does so
\* only once the EOF has been decoded; a reply of exactly max_len octets
\* returns max_len.
C15_Overflow ==
    /\ pc = "receive" => lastRet = 0
    /\ pc = "returned" =>
        /\ ret /\ Demod.len > Demod.max_len => lastRet = -2
        /\ lastRet = -2 =>
            /\ ret
            /\ Demod.shiftReg = 0
            /\ Demod.len > Demod.max_len
        /\ ret /\ Demod.len = Demod.max_len => lastRet = Demod.max_len

\* the reply A5 into a buffer of no octet has returned -2, at its EOF
C15_Witness ==
    /\ pc = "returned"
    /\ lastRet = -2
    /\ Demod.max_len = 0
    /\ Demod.len = 1 /\ Demod.output = <<165>>
    /\ Demod.shiftReg = 0

\* C36: after Demod14bInit(data, max_len), every byte store of
\* Handle14443bSamplesFromTag is at an index below max_len, whatever the IQ
\* samples are.
C36_DemodStoresInBounds ==
    [][Demod'.len = Demod.len + 1 =>
         /\ Demod'.output[Demod.len + 1] = DemodDataByte(Demod'.shiftReg)
         /\ Demod.len < Demod.max_len]_vars

\* a second octet has been stored into a buffer of one octet and the call is
\* still receiving
C36_Witness ==
    /\ pc = "receive"
    /\ Demod.max_len = 1
    /\ Demod.len = 2 /\ Len(Demod.output) = 2
    /\ Demod.state = DEMOD_AWAITING_START_BIT

(***************************************************************************)
(* SpecReceive: the loop of Get14443bAnswerFromTag on an IQ stream without *)
(* end, the DMA delivering a sample to every turn and the button not       *)
(* pressed.  The loop compares `samples` with the timeout only and         *)
(* Demod.len with 0 and max_len only, so pos is kept up to timeout + 1 and *)
(* Demod.len up to max_len + 1 (the octets stored beyond are not kept);    *)
(* the turns of the loop are the same as with the exact counts.            *)
(* SpecReceiveLive adds that the loop goes on taking turns.                *)
(***************************************************************************)
\* Demod with len, and the octets kept, saturated at max_len + 1
DemodKept(D) ==
    IF D.len <= D.max_len + 1 THEN D
    ELSE [D EXCEPT !.len = D.max_len + 1,
                   !.output = SubSeq(@, 1, D.max_len + 1)]

ReceiveTurned(iq) ==
    LET st == AnswerStep([d |-> Demod, samples |-> pos, done |-> FALSE, ret |-> 0],
                         iq, lastCall.timeout)
    IN  /\ Demod' = DemodKept(st.d)
        /\ pos' = IF st.samples > lastCall.timeout + 1 THEN lastCall.timeout + 1
                  ELSE st.samples
        /\ pc' = IF st.done THEN "returned" ELSE "receive"
        /\ ret' = (st.done /\ st.ret # -1)
        /\ lastRet' = IF ~st.done THEN lastRet
                      ELSE IF st.ret < 0 THEN st.ret ELSE st.d.len
        /\ UNCHANGED <<M, ToSend, Uart, phase, stored, pcb_blocknum, iso14b_timeout,
                       card, lastTx, lastCall, hist, ncalls, tag, sim, reader, sniff,
                       hw>>

\* a turn on a freely chosen sample
ReceiveTurn ==
    /\ pc = "receive"
    /\ tail = <<>>
    /\ \E iq \in IQSamples :
         /\ ReceiveTurned(iq)
         /\ IF Demod'.state = DEMOD_RECEIVING_DATA /\ Demod.state # DEMOD_RECEIVING_DATA
            THEN tail' \in CharTails
            ELSE tail' = <<>>

\* a turn on the next sample of the character in progress
ReceiveCharTurn ==
    /\ pc = "receive"
    /\ tail # <<>>
    /\ ReceiveTurned(Head(tail))
    /\ tail' = Tail(tail)

NextReceive == ReceiveTurn \/ ReceiveCharTurn

SpecReceive == InitAnswer /\ [][NextReceive]_vars

SpecReceiveLive == SpecReceive /\ WF_vars(NextReceive)

\* C37: as long as the DMA delivers samples, Get14443bAnswerFromTag returns,
\* whatever the IQ stream is, streams of subcarrier and well-framed characters
\* without an EOF included.
C37_ReceiveTerminates == <>(pc = "returned")

\* the call is still in its loop after the timeout has run out and more
\* characters than the buffer holds have been stored
C37_Witness ==
    /\ pc = "receive"
    /\ pos = lastCall.timeout + 1
    /\ Demod.len = Demod.max_len + 1
    /\ Demod.state = DEMOD_AWAITING_START_BIT

\* a stream that leaves the demodulator in Unsynced after the timeout ends
\* the call
C37_UnsyncedEnds ==
    pc = "receive" => ~(pos > lastCall.timeout /\ Demod.state = DEMOD_UNSYNCD)

(***************************************************************************)
(* SpecInterop: iso14443b_select_card run against SimulateIso14443bTag     *)
(* over an ideal channel.  The emulator is in the field in SIM_IDLE; the   *)
(* host calls select_card up to MaxCalls times.  reader is the frame the   *)
(* reader has put on the air, tag the answer the emulator has given to it  *)
(* (NoReply when it transmitted nothing), lastTx the frames the reader     *)
(* sent in the current call, hist.emuTx the frames the emulator sent in    *)
(* the current call and hist.emuSaw the cardSTATE values in which its      *)
(* switch left it.  pc is where the reader is: "idle" between calls,       *)
(* "wupb" and "attrib" while its frame is on the air, "wupb_answered" and  *)
(* "attrib_answered" while it receives.                                    *)
(***************************************************************************)
\* the frame whose encoding the emulator transmitted in tx
InteropAnswer(S, tx) ==
    IF tx = <<>> THEN NoReply
    ELSE IF tx = <<S.encodedATQB>> THEN Reply(S.respATQB)
    ELSE Reply(respOK)

InitInterop ==
    /\ pc = "idle"
    /\ IdleCodec
    /\ Uart = Uart14bInit
    /\ Demod = Demod14bInit(MAX_FRAME_SIZE)
    /\ ret = FALSE
    /\ stored = 0
    /\ tail = <<>>
    /\ pcb_blocknum = 0
    /\ iso14b_timeout = FWT_TIMEOUT_14B
    /\ card = NoCard
    /\ lastTx = <<>>
    /\ lastRet = 0
    /\ lastCall = [op |-> "none"]
    /\ hist = [emuTx |-> <<>>, emuSaw |-> <<>>]
    /\ ncalls = 0
    /\ tag = NoTag
    /\ \E pupi \in SimPupis :
         sim = [running      |-> TRUE,
                pupi         |-> pupi,
                respATQB     |-> RespATQB(pupi),
                encodedATQB  |-> Encoded(RespATQB(pupi)),
                encodedOK    |-> Encoded(respOK),
                cardSTATE    |-> SIM_IDLE,
                cmdsReceived |-> 0,
                receivedCmd  |-> <<>>,
                len          |-> 0]
    /\ reader = <<>>
    /\ sniff = NoSniff
    /\ hw = NoHw

\* iso14443b_select_card up to its first Get14443bAnswerFromTag
InteropWupb ==
    /\ pc = "idle"
    /\ ncalls < MaxCalls
    /\ ncalls' = ncalls + 1
    /\ \E in \in SelectInputs :
         lastCall' = [op |-> "select", hasCard |-> in.hasCard]
    /\ reader' = WUPB
    /\ lastTx' = <<WUPB>>
    /\ ToSend' = CodeIso14443bAsReader(WUPB)
    /\ hist' = [emuTx |-> <<>>, emuSaw |-> <<>>]
    /\ tag' = NoTag
    /\ pc' = "wupb"
    /\ UNCHANGED <<M, pos, Uart, Demod, ret, phase, stored, tail, pcb_blocknum,
                   iso14b_timeout, card, lastRet, sim, sniff, hw>>

\* one turn of the simulation loop on the frame the reader sent
InteropEmulator ==
    /\ pc \in {"wupb", "attrib"}
    /\ \E r \in {GetIso14443bCommandFromReader(reader)} :
       \E out \in {SimSwitch(sim, SimWake(sim.cardSTATE, r.received, r.len),
                             r.received, r.len)} :
         /\ r.ret
         /\ Uart' = r.u
         /\ sim' = [sim EXCEPT !.cardSTATE = out.cardSTATE,
                               !.cmdsReceived = (@ + 1) % 65536,
                               !.receivedCmd = r.received,
                               !.len = r.len]
         /\ tag' = [present |-> TRUE, reply |-> InteropAnswer(sim, out.tx)]
         /\ hist' = [emuTx  |-> hist.emuTx \o
                                  (IF out.tx = <<>> THEN <<>>
                                   ELSE <<InteropAnswer(sim, out.tx).bytes>>),
                     emuSaw |-> Append(hist.emuSaw, out.cardSTATE)]
    /\ pc' = IF pc = "wupb" THEN "wupb_answered" ELSE "attrib_answered"
    /\ UNCHANGED <<M, ToSend, pos, Demod, ret, phase, stored, tail, pcb_blocknum,
                   iso14b_timeout, card, lastTx, lastRet, lastCall, ncalls, reader,
                   sniff, hw>>

\* iso14443b_select_card from the answer to WUPB to the transmission of ATTRIB
InteropAtqb ==
    /\ pc = "wupb_answered"
    /\ \E a1 \in {Get14443bAnswerFromTag(tag.reply, 14, ISO14443B_READER_TIMEOUT)} :
         LET r_pupid == a1.d.output
         IN  /\ Demod' = a1.d
             /\ IF a1.ret < 14
                THEN /\ lastRet' = -1 /\ pc' = "idle"
                     /\ UNCHANGED <<card, reader, lastTx, ToSend>>
                ELSE IF ~check_crc(r_pupid, a1.ret)
                THEN /\ lastRet' = -2 /\ pc' = "idle"
                     /\ UNCHANGED <<card, reader, lastTx, ToSend>>
                ELSE /\ card' = IF lastCall.hasCard
                                THEN [card EXCEPT !.uidlen = 4,
                                                  !.uid = SubSeq(r_pupid, 2, 5),
                                                  !.atqb = SubSeq(r_pupid, 6, 12)]
                                ELSE card
                     /\ reader' = AttribFor(r_pupid)
                     /\ lastTx' = <<WUPB, AttribFor(r_pupid)>>
                     /\ ToSend' = CodeIso14443bAsReader(AttribFor(r_pupid))
                     /\ pc' = "attrib"
                     /\ UNCHANGED lastRet
    /\ UNCHANGED <<M, pos, Uart, ret, phase, stored, tail, pcb_blocknum,
                   iso14b_timeout, lastCall, hist, ncalls, tag, sim, sniff, hw>>

\* iso14443b_select_card from the answer to ATTRIB to its return
InteropAttrib ==
    /\ pc = "attrib_answered"
    /\ \E a2 \in {Get14443bAnswerFromTag(tag.reply, 3, ISO14443B_READER_TIMEOUT)} :
         LET r_attrib == a2.d.output
             fwt      == card.atqb[7] \div 16
         IN  /\ Demod' = a2.d
             /\ IF a2.ret < 3
                THEN /\ lastRet' = -1
                     /\ UNCHANGED <<card, Uart, iso14b_timeout, pcb_blocknum>>
                ELSE IF ~check_crc(r_attrib, a2.ret)
                THEN /\ lastRet' = -2
                     /\ UNCHANGED <<card, Uart, iso14b_timeout, pcb_blocknum>>
                ELSE /\ lastRet' = 0
                     /\ pcb_blocknum' = 0
                     /\ IF lastCall.hasCard
                        THEN /\ card' = [card EXCEPT !.cid = r_attrib[1]]
                             /\ Uart' = iso14b_set_maxframesize(
                                            Uart, MaxFrameOf(card.atqb[6] \div 16))
                             /\ iso14b_timeout' =
                                  IF fwt < 16 THEN iso14b_set_timeout(FwtTime(fwt))
                                  ELSE iso14b_timeout
                        ELSE UNCHANGED <<card, Uart, iso14b_timeout>>
    /\ pc' = "idle"
    /\ UNCHANGED <<M, ToSend, pos, ret, phase, stored, tail, lastTx, lastCall, hist,
                   ncalls, tag, sim, reader, sniff, hw>>

NextInterop == InteropWupb \/ InteropEmulator \/ InteropAtqb \/ InteropAttrib

SpecInterop == InitInterop /\ [][NextInterop]_vars

\* the first call of select_card has returned
InteropFirstDone == pc = "idle" /\ ncalls = 1

\* C38: against the emulator in Idle the exchange WUPB -> ATQB -> ATTRIB -> OK
\* completes, the reader sending nothing but WUPB and ATTRIB; the reader's
\* 11-byte ATTRIB is recognised by the emulator's ATTRIB test; and select_card
\* returns 0 with card.uid equal to the emulator's PUPI.
C38_Interoperate ==
    InteropFirstDone =>
        /\ Len(lastTx) = 2
        /\ lastTx[1] = WUPB
        /\ Len(lastTx[2]) = 11 /\ lastTx[2][1] = ISO14443B_ATTRIB
        /\ SIM_ACKNOWLEDGE \in {hist.emuSaw[k] : k \in 1..Len(hist.emuSaw)}
        /\ hist.emuTx = <<sim.respATQB, respOK>>
        /\ lastRet = 0
        /\ lastCall.hasCard => card.uid = SubSeq(sim.respATQB, 2, 5)

\* what does hold of the first call: everything but the OK and the return
C38_UpToAttrib ==
    InteropFirstDone =>
        /\ Len(lastTx) = 2
        /\ lastTx[1] = WUPB
        /\ Len(lastTx[2]) = 11 /\ lastTx[2][1] = ISO14443B_ATTRIB
        /\ check_crc(lastTx[2], 11)
        /\ SubSeq(lastTx[2], 2, 5) = SubSeq(sim.respATQB, 2, 5)
        /\ hist.emuSaw = <<SIM_WORK, SIM_ACKNOWLEDGE>>
        /\ hist.emuTx = <<sim.respATQB>>
        /\ sim.cardSTATE = SIM_ACKNOWLEDGE
        /\ lastRet = -1
        /\ lastCall.hasCard => card.uid = SubSeq(sim.respATQB, 2, 5)

\* the first call has returned -1 with the card's uid filled in from the ATQB
\* of the emulator started with pupi 0xDEADBEEF, which waits in Acknowledge
C38_Witness ==
    /\ InteropFirstDone
    /\ lastRet = -1
    /\ lastCall.hasCard
    /\ card.uid = <<222, 173, 190, 239>>
    /\ sim.cardSTATE = SIM_ACKNOWLEDGE
    /\ tag.reply = NoReply

(***************************************************************************)
(* Claims about the reader protocol.                                       *)
(***************************************************************************)
\* PCB byte of the frame the last call sent, when that call was iso14443b_apdu
LastPcb == lastTx[1][1]

\* C7 as stated: pcb_blocknum is always 0 or 1 and toggles exactly once per call
\* of iso14443b_apdu whatever the outcome, so the PCB bytes of any two
\* consecutive APDU frames differ in bit 0 and are equal in every other bit.
C7_PcbToggleAsStated ==
    /\ pcb_blocknum \in {0, 1}
    /\ lastCall.op = "apdu" =>
        /\ pcb_blocknum = 1 - hist.pcbBefore
        /\ hist.apduPcb # -1 => Xor(LastPcb, hist.apduPcb) = 1

\* C7: pcb_blocknum is always 0 or 1 and toggles exactly once per call of
\* iso14443b_apdu whatever the outcome, so the PCB bytes of two consecutive APDU
\* frames with no successful iso14443b_select_card between them differ in bit 0
\* and are equal in every other bit.
C7_PcbToggle ==
    /\ pcb_blocknum \in {0, 1}
    /\ lastCall.op = "apdu" =>
        /\ pcb_blocknum = 1 - hist.pcbBefore
        /\ LastPcb = 10 + hist.pcbBefore
        /\ hist.apduPcb # -1 /\ ~hist.selBetween => Xor(LastPcb, hist.apduPcb) = 1

\* an APDU that times out follows an APDU sent with PCB 0x0B: it is sent with
\* PCB 0x0A and the block number has moved on
C7_Witness ==
    /\ lastCall.op = "apdu"
    /\ lastCall.hasBuf /\ tag.apdu = NoReply
    /\ lastRet = 0
    /\ hist.apduPcb = 11 /\ ~hist.selBetween
    /\ LastPcb = 10
    /\ pcb_blocknum = 1

\* C8: a successful iso14443b_select_card resets pcb_blocknum to 0 regardless of
\* how many APDUs preceded it, so the first APDU after it is sent as the frame
\* {0x0A, 0x00, INF..., CRC_lo, CRC_hi} and leaves pcb_blocknum = 1; a failed
\* iso14443b_select_card leaves pcb_blocknum unchanged.
C8_SelectResetsPcb ==
    /\ lastCall.op = "select" /\ lastRet = 0 => pcb_blocknum = 0
    /\ lastCall.op = "select" /\ lastRet # 0 => pcb_blocknum = hist.pcbBefore
    /\ lastCall.op = "apdu" /\ hist.selBetween =>
        LET inf == lastCall.message
            crc == Crc14B(<<10, 0>> \o inf, Len(inf) + 2)
        IN  /\ lastTx = << <<10, 0>> \o inf \o <<crc % 256, crc \div 256>> >>
            /\ pcb_blocknum = 1

\* the APDU 90 00 is the first after a successful select that itself followed
\* an APDU sent with PCB 0x0A, i.e. the select found pcb_blocknum = 1
C8_Witness ==
    /\ lastCall.op = "apdu"
    /\ lastCall.message = <<144, 0>>
    /\ hist.selBetween
    /\ hist.apduPcb = 10
    /\ lastTx = << <<10, 0, 144, 0>> \o SubSeq(ApduFrame(0, <<144, 0>>), 5, 6) >>
    /\ pcb_blocknum = 1

\* C9 as stated: iso14443b_select_card returns only values in {0, -1, -2}: -1
\* exactly when the ATQB reply has fewer than 14 bytes or the ATTRIB reply has
\* fewer than 3 bytes (including no reply), -2 exactly when a reply of
\* sufficient length fails the CRC-14B check, and 0 otherwise; the ATTRIB
\* command is transmitted only after a CRC-valid ATQB has been received.
C9_SelectReturnCodes ==
    lastCall.op = "select" =>
        LET atqb     == tag.atqb.bytes
            attrib   == tag.attrib.bytes
            short1   == Len(atqb) < 14
            valid1   == ~short1 /\ check_crc(atqb, Len(atqb))
            short2   == valid1 /\ Len(attrib) < 3
            valid2   == valid1 /\ ~short2 /\ check_crc(attrib, Len(attrib))
        IN  /\ lastRet \in {0, -1, -2}
            /\ lastRet = -1 <=> short1 \/ short2
            /\ lastRet = -2 <=> (~short1 /\ ~valid1) \/ (valid1 /\ ~short2 /\ ~valid2)
            /\ Len(lastTx) = 2 => valid1

\* C10: after a successful iso14443b_select_card with a card descriptor,
\* iso14b_timeout = 302 << k, where k is the high nibble of card.atqb[6], for
\* every k in 0..15; the reply 50 82 0D E1 74 20 38 19 22 00 21 85 5E D7 gives
\* 77312.
C10_FwtTimeout ==
    lastCall.op = "select" /\ lastRet = 0 /\ lastCall.hasCard =>
        /\ card.atqb[7] \div 16 \in 0..15
        /\ card.atqb[7] = tag.atqb.bytes[12]
        /\ \A k \in 0..15 :
            card.atqb[7] \div 16 = k =>
                iso14b_timeout = 302 * (2 ^ k)
        /\ tag.atqb.bytes
               = <<80, 130, 13, 225, 116, 32, 56, 25, 34, 0, 33, 133, 94, 215>>
            => iso14b_timeout = 77312

\* the select of the tag that answers 50 82 0D E1 74 20 38 19 22 00 21 85 5E D7
\* has succeeded after an APDU and has replaced the default timeout
C10_Witness ==
    /\ lastCall.op = "select" /\ lastRet = 0 /\ lastCall.hasCard
    /\ tag.atqb.bytes
           = <<80, 130, 13, 225, 116, 32, 56, 25, 34, 0, 33, 133, 94, 215>>
    /\ iso14b_timeout = 77312
    /\ hist.apduPcb = 10

\* the frame sizes of the ATQB frame-size nibbles 0..8
FrameSizes == <<16, 24, 32, 40, 48, 64, 96, 128, 256>>

\* C11 as stated: after a successful iso14443b_select_card with a card
\* descriptor, the maximum frame size in effect is the value decoded from the
\* high nibble n of card.atqb[5]: 8*n+16 for n in 0..4, 64, 96, 128, 256 for
\* n = 5, 6, 7, 8, and 257 for every n in 9..15.
C11_MaxFrameAsStated ==
    lastCall.op = "select" /\ lastRet = 0 /\ lastCall.hasCard =>
        LET n == card.atqb[6] \div 16
        IN  /\ n \in 0..4 => Uart.byteCntMax = 8 * n + 16
            /\ n \in 5..8 => Uart.byteCntMax = FrameSizes[n + 1]
            /\ n \in 9..15 => Uart.byteCntMax = 257

\* C11: after a successful iso14443b_select_card with a card descriptor, the
\* maximum frame size in effect (Uart.byteCntMax) is 8*n+16 for n in 0..4, 64,
\* 96, 128, 256 for n = 5, 6, 7, 8, and MAX_FRAME_SIZE = 256 for every n in
\* 9..15, where n is the high nibble of card.atqb[5] and of byte 10 of the ATQB.
C11_MaxFrame ==
    lastCall.op = "select" /\ lastRet = 0 /\ lastCall.hasCard =>
        LET n == card.atqb[6] \div 16
        IN  /\ n \in 0..15
            /\ n = tag.atqb.bytes[11] \div 16
            /\ n \in 0..4 => Uart.byteCntMax = 8 * n + 16
            /\ n \in 5..8 => Uart.byteCntMax = FrameSizes[n + 1]
            /\ n \in 9..15 => Uart.byteCntMax = 256

\* after an APDU, the select of the tag whose ATQB has frame-size nibble 9
\* (card.atqb[5] = 0x91) has succeeded and has set MAX_FRAME_SIZE
C11_Witness ==
    /\ lastCall.op = "select" /\ lastRet = 0 /\ lastCall.hasCard
    /\ card.atqb[6] = 145
    /\ Uart.byteCntMax = 256
    /\ hist.apduPcb = 10

====
